---- MODULE Spec2Model ----
(***************************************************************************)
(* ADB Pro for VS Code: the command executor (adbClient.ts), its output    *)
(* parsers, the target-app manager (appManager.ts) and the command         *)
(* handlers (extension.ts).                                                *)
(*                                                                         *)
(* Text that the code parses (tool output, quick-pick labels) is a         *)
(* sequence of one-character strings.  Text that the code only assembles   *)
(* (command lines, messages) is a sequence of literal pieces and           *)
(* interpolated values.                                                    *)
(***************************************************************************)
EXTENDS Integers, Sequences, FiniteSets, TLC

VARIABLES
    toolOutcome,    \* what the child process of the call under study does
    callResult,     \* what the AdbClient method returned or threw
    phase,          \* "ready" before the call under study, "done" after it
    selected,       \* workspaceState['adb-pro.targetApp']
    history,        \* globalState['adb-pro.appHistory']
    lastPackage,    \* the package of the latest setSelectedApp call that had one
    calls,          \* number of TargetAppManager calls made so far
    items,          \* the quick-pick items of the latest pickApp
    picked,         \* what the latest pickApp returned
    pickSources,    \* what the device and the workspace gave the latest pickApp
    log,            \* the lines appended to the 'ADB Pro' output channel
    invs,           \* the child processes started so far, by number
    handlers,       \* the command handler runs started so far, by number
    messages,       \* the notifications shown to the user
    view,           \* AdbWebviewProvider._view is set
    webviewDevices  \* the devices of the latest updateDevices message

callVars == <<toolOutcome, callResult, phase>>

appVars == <<selected, history, lastPackage, calls, items, picked, pickSources>>

runVars == <<log, invs, handlers, messages, view, webviewDevices>>

vars == <<callVars, appVars, runVars>>

(***************************************************************************)
(* Bounds                                                                  *)
(***************************************************************************)
MaxStdout == 3      \* characters of standard output in SpecExecute
MaxRows == 3        \* data rows of the device list in SpecDevices
MaxLines == 4       \* lines of the package dump in SpecPermissions
MaxCalls == 12      \* setSelectedApp calls in SpecHistory
MaxPicks == 1       \* pickApp calls in SpecPick
MaxCommands == 1    \* command handler runs in SpecRun
MaxInvocations == 2 \* child processes started in SpecStream
MaxLog == 4         \* output-channel entries after which no more data events arrive
MaxPackageLines == 3 \* lines of the package list in SpecPackages
MaxPidChars == 4    \* characters of the pidof output in SpecPid
MaxStepInvocations == 4 \* child processes started in SpecSteps
MaxPickInvocations == 2 \* child processes after which no command is run in SpecPickDevice

(***************************************************************************)
(* JavaScript values and string primitives                                 *)
(***************************************************************************)
Undefined == <<"undefined">>

\* a value used as a condition: undefined and the empty string are falsy
Truthy(v) == v # Undefined /\ v # <<>>

\* the characters String.prototype.trim and the regex class \s remove
Whitespace == {" ", "\t", "\n", "\r"}

IsBlankText(s) == \A i \in 1..Len(s) : s[i] \in Whitespace

RECURSIVE TrimStart(_)
TrimStart(s) ==
    IF s # <<>> /\ Head(s) \in Whitespace THEN TrimStart(Tail(s)) ELSE s

RECURSIVE TrimEnd(_)
TrimEnd(s) ==
    IF s # <<>> /\ s[Len(s)] \in Whitespace
    THEN TrimEnd(SubSeq(s, 1, Len(s) - 1))
    ELSE s

\* String.prototype.trim
Trim(s) == TrimEnd(TrimStart(s))

\* first position of character c in s, 0 when absent
IndexOfChar(s, c) ==
    IF \E i \in 1..Len(s) : s[i] = c
    THEN CHOOSE i \in 1..Len(s) : s[i] = c /\ \A j \in 1..(i - 1) : s[j] # c
    ELSE 0

\* String.prototype.split with a one-character separator
RECURSIVE Split(_, _)
Split(s, sep) ==
    LET i == IndexOfChar(s, sep) IN
    IF i = 0 THEN <<s>>
    ELSE <<SubSeq(s, 1, i - 1)>> \o Split(SubSeq(s, i + 1, Len(s)), sep)

\* String.prototype.split(/\s+/)
RECURSIVE SplitWhitespace(_)
SplitWhitespace(s) ==
    IF \A i \in 1..Len(s) : s[i] \notin Whitespace THEN <<s>>
    ELSE LET i == CHOOSE k \in 1..Len(s) :
                      s[k] \in Whitespace /\ \A j \in 1..(k - 1) : s[j] \notin Whitespace
         IN <<SubSeq(s, 1, i - 1)>>
                \o SplitWhitespace(TrimStart(SubSeq(s, i + 1, Len(s))))

\* Array.prototype.join with a one-character separator
RECURSIVE Join(_, _)
Join(parts, sep) ==
    IF parts = <<>> THEN <<>>
    ELSE IF Len(parts) = 1 THEN parts[1]
    ELSE parts[1] \o <<sep>> \o Join(Tail(parts), sep)

\* String.prototype.startsWith
StartsWith(s, p) == Len(s) >= Len(p) /\ SubSeq(s, 1, Len(p)) = p

(***************************************************************************)
(* AdbClient.execute                                                       *)
(***************************************************************************)
AdbPath == <<"adb">>

FullCommand(command) == AdbPath \o <<" ">> \o command

\* the entry written before the child process is started
ExecuteStart(command) ==
    [kind |-> "cmd", text |-> <<"> ">> \o FullCommand(command)]

\* promisify(exec): the promise rejects when the process could not be
\* spawned or ended with a non-zero exit status
ExecRejects(o) == ~o.spawned \/ o.code # 0

\* the catch branch of execute
ExecuteCatch(o) ==
    [threw   |-> TRUE,
     value   |-> Undefined,
     message |-> <<"ADB Error: ">> \o o.message,
     log     |-> <<[kind |-> "error", text |-> <<"Error: ">> \o o.message]>>]

\* the try branch of execute without the trimming
ExecuteStdoutWhole(o) ==
    [threw   |-> FALSE,
     value   |-> o.stdout,
     message |-> Undefined,
     log     |-> (IF o.stdout # <<>>
                  THEN <<[kind |-> "stdout", text |-> o.stdout]>> ELSE <<>>)
                 \o (IF o.stderr # <<>>
                     THEN <<[kind |-> "stderr", text |-> <<"stderr: ">> \o o.stderr]>>
                     ELSE <<>>)]

\* the try branch of execute trimming the end only
ExecuteTrimEndOnly(o) ==
    [ExecuteStdoutWhole(o) EXCEPT !.value = TrimEnd(o.stdout)]

\* the try branch of execute after the await
ExecuteTry(o) ==
    [ExecuteStdoutWhole(o) EXCEPT !.value = Trim(o.stdout)]

\* execute treating text on standard error as a failure
ExecuteFailsOnStderr(o) ==
    IF ExecRejects(o) \/ o.stderr # <<>> THEN ExecuteCatch(o) ELSE ExecuteTry(o)

\* the value of callResult before the call under study has returned
NoResult == [threw |-> FALSE, value |-> Undefined, message |-> Undefined, log |-> <<>>]

\* execute from the completion of the child process on
ExecuteFinish(o) ==
    IF ExecRejects(o) THEN ExecuteCatch(o) ELSE ExecuteTry(o)

(***************************************************************************)
(* Tool outcomes                                                           *)
(***************************************************************************)
SpawnFailure ==
    [spawned |-> FALSE, code |-> 1, stdout |-> <<>>, stderr |-> <<>>,
     message |-> <<"spawn adb ENOENT">>]

Exited(code, out, err) ==
    [spawned |-> TRUE, code |-> code, stdout |-> out, stderr |-> err,
     message |-> <<"Command failed: ">> \o err]

SeqsUpTo(S, n) == UNION {[1..k -> S] : k \in 0..n}

ExecuteOutcomes ==
    {SpawnFailure} \cup
    {Exited(c, out, err) : c \in {0, 1},
                           out \in SeqsUpTo({"a", " ", "\n"}, MaxStdout),
                           err \in {<<>>, <<"w">>}}

\* the sources of pickApp before its first call
NoSources == [fetch |-> [kind |-> "none", list |-> <<>>], discovered |-> <<>>, act |-> "none"]

\* the parts of the state a specification does not exercise
CallIdle ==
    /\ toolOutcome = SpawnFailure
    /\ callResult = NoResult
    /\ phase = "idle"

AppIdle ==
    /\ selected = Undefined
    /\ history = <<>>
    /\ lastPackage = Undefined
    /\ calls = 0
    /\ items = <<>>
    /\ picked = Undefined
    /\ pickSources = NoSources

RunIdle ==
    /\ log = <<>>
    /\ invs = <<>>
    /\ handlers = <<>>
    /\ messages = <<>>
    /\ view = FALSE
    /\ webviewDevices = Undefined

(***************************************************************************)
(* SpecExecute: one call of execute on every outcome of the tool           *)
(***************************************************************************)
InitExecute ==
    /\ toolOutcome \in ExecuteOutcomes
    /\ callResult = NoResult
    /\ phase = "ready"
    /\ AppIdle
    /\ RunIdle

Execute ==
    /\ phase = "ready"
    /\ callResult' = ExecuteFinish(toolOutcome)
    /\ phase' = "done"
    /\ UNCHANGED <<toolOutcome, appVars, runVars>>

NextExecute == Execute

SpecExecute == InitExecute /\ [][NextExecute]_vars

\* C3: execute fails exactly when the tool exits with a non-zero status or
\* cannot be spawned; the failure carries the underlying message and no
\* output; standard error text alone does not make a zero-exit call fail.
C3_ExecuteFailsIffToolFails ==
    phase = "done" =>
        /\ callResult.threw <=> (~toolOutcome.spawned \/ toolOutcome.code # 0)
        /\ callResult.threw =>
              /\ callResult.value = Undefined
              /\ Len(callResult.message) >= Len(toolOutcome.message)
              /\ SubSeq(callResult.message,
                        Len(callResult.message) - Len(toolOutcome.message) + 1,
                        Len(callResult.message)) = toolOutcome.message
        /\ (toolOutcome.spawned /\ toolOutcome.code = 0 /\ toolOutcome.stderr # <<>>)
              => ~callResult.threw

C3_Witness ==
    /\ phase = "done"
    /\ toolOutcome.spawned /\ toolOutcome.code # 0
    /\ toolOutcome.stdout # <<>> /\ toolOutcome.stderr # <<>>
    /\ callResult.threw /\ callResult.value = Undefined

\* C4 as stated: on success the result is standard output with only its
\* trailing whitespace removed.
C4_OnlyTrailingWhitespaceRemoved ==
    (phase = "done" /\ ~callResult.threw) =>
        callResult.value = TrimEnd(toolOutcome.stdout)

\* C4 amended: on success standard output is a run of whitespace, then the
\* result, then a run of whitespace, and the result neither starts nor ends
\* with whitespace.
C4_BothEndsTrimmed ==
    (phase = "done" /\ ~callResult.threw) =>
        LET out == toolOutcome.stdout
            res == callResult.value IN
        /\ \E i \in 0..Len(out) :
              /\ i + Len(res) <= Len(out)
              /\ IsBlankText(SubSeq(out, 1, i))
              /\ SubSeq(out, i + 1, i + Len(res)) = res
              /\ IsBlankText(SubSeq(out, i + Len(res) + 1, Len(out)))
        /\ res # <<>> => (Head(res) \notin Whitespace /\ res[Len(res)] \notin Whitespace)

C4_Witness ==
    /\ phase = "done" /\ ~callResult.threw
    /\ toolOutcome.stdout # <<>>
    /\ Head(toolOutcome.stdout) \in Whitespace
    /\ callResult.value # <<>>
    /\ callResult.value # toolOutcome.stdout

(***************************************************************************)
(* AdbClient.getConnectedDevices                                           *)
(***************************************************************************)
\* element k of a destructured array, undefined past its end
ElementOrUndefined(xs, k) == IF k <= Len(xs) THEN xs[k] ELSE Undefined

\* the callback of the last map: one record per line
DeviceOfLine(line) ==
    LET fields == SplitWhitespace(line) IN
    [id |-> ElementOrUndefined(fields, 1), type |-> ElementOrUndefined(fields, 2)]

NonEmptyLine(line) == Len(line) > 0

\* the parsing without slice(1): the first line is kept
ParseDevicesKeepingHeader(output) ==
    LET lines   == Split(output, "\n")
        trimmed == [k \in 1..Len(lines) |-> Trim(lines[k])]
        kept    == SelectSeq(trimmed, NonEmptyLine)
    IN [k \in 1..Len(kept) |-> DeviceOfLine(kept[k])]

\* the parsing of the trimmed tool output
ParseDevices(output) ==
    LET lines   == Tail(Split(output, "\n"))
        trimmed == [k \in 1..Len(lines) |-> Trim(lines[k])]
        kept    == SelectSeq(trimmed, NonEmptyLine)
    IN [k \in 1..Len(kept) |-> DeviceOfLine(kept[k])]

\* getConnectedDevices from the completion of `adb devices` on: a failure of
\* execute propagates
GetConnectedDevicesFinish(o) ==
    LET r == ExecuteFinish(o) IN
    IF r.threw THEN r ELSE [r EXCEPT !.value = ParseDevices(r.value)]

(***************************************************************************)
(* SpecDevices: one call of getConnectedDevices on device-list texts       *)
(***************************************************************************)
DeviceHeader == <<"L", "i", "s", "t", " ", "o", "f", " ", "d", "e", "v", "i", "c", "e", "s", " ", "a", "t", "t", "a", "c", "h", "e", "d">>

DeviceRows ==
    { <<"e", "1", " ", "d", "e", "v", "i", "c", "e">>,
      <<"1", ".", "2", ":", "5", " ", "d", "e", "v", "i", "c", "e", " ", "m", ":", "x">>,
      <<" ", "e", "2", "\t", "o", "f", "f", "l", "i", "n", "e", " ">>,
      <<"e", "3">>,
      <<"e", "4", " ", "d", "e", "v", "i", "c", "e", " ", "p", ":", "y", " ", "m", "o", "d", "e", "l", ":", "x">>,
      <<>>,
      <<" ">> }

\* the header line followed by the rows, with or without a final newline
DeviceListText(rows, finalNewline) ==
    Join(<<DeviceHeader>> \o rows, "\n") \o (IF finalNewline THEN <<"\n">> ELSE <<>>)

DeviceOutcomes ==
    {o @@ [rows |-> <<>>, wellFormed |-> FALSE] : o \in {SpawnFailure, Exited(0, <<>>, <<>>)}}
    \cup
    {Exited(c, DeviceListText(rows, nl), <<>>) @@ [rows |-> rows, wellFormed |-> TRUE] :
        c \in {0, 1}, rows \in SeqsUpTo(DeviceRows, MaxRows), nl \in BOOLEAN}

InitDevices ==
    /\ toolOutcome \in DeviceOutcomes
    /\ callResult = NoResult
    /\ phase = "ready"
    /\ AppIdle
    /\ RunIdle

GetConnectedDevices ==
    /\ phase = "ready"
    /\ callResult' = GetConnectedDevicesFinish(toolOutcome)
    /\ phase' = "done"
    /\ UNCHANGED <<toolOutcome, appVars, runVars>>

NextDevices == GetConnectedDevices

SpecDevices == InitDevices /\ [][NextDevices]_vars

NonBlankRows(rows) == SelectSeq(rows, LAMBDA row : ~IsBlankText(row))

\* the connection medium a device record carries
ConnectionTypeOf(device) ==
    IF "connectionType" \in DOMAIN device THEN device.connectionType ELSE "absent"

\* C2: for a header line followed by data rows, one record per non-blank
\* row, in row order, with identifier and state the first two fields of the
\* row and with medium wireless exactly when the identifier has a colon,
\* wired otherwise.
C2_OneRecordPerRowWithMedium ==
    (phase = "done" /\ ~callResult.threw /\ toolOutcome.wellFormed) =>
        LET rows    == NonBlankRows(toolOutcome.rows)
            devices == callResult.value IN
        /\ Len(devices) = Len(rows)
        /\ \A k \in 1..Len(rows) :
              LET fields == SplitWhitespace(Trim(rows[k])) IN
              /\ devices[k].id = ElementOrUndefined(fields, 1)
              /\ devices[k].type = ElementOrUndefined(fields, 2)
              /\ ConnectionTypeOf(devices[k]) =
                    (IF IndexOfChar(devices[k].id, ":") # 0 THEN "wireless" ELSE "wired")

(***************************************************************************)
(* AdbClient.getAppPermissions                                             *)
(***************************************************************************)
RuntimePermissionsMarker == <<"r", "u", "n", "t", "i", "m", "e", " ", "p", "e", "r", "m", "i", "s", "s", "i", "o", "n", "s", ":">>

GrantedKey == <<"g", "r", "a", "n", "t", "e", "d", "=">>

TrueText == <<"t", "r", "u", "e">>

FalseText == <<"f", "a", "l", "s", "e">>

NoMatch == [matched |-> FALSE, name |-> Undefined, granted |-> FALSE]

\* trimmed.match(/^([^:]+):\s*granted=(true|false)/): the name is what
\* precedes the first colon and must not be empty
MatchPermission(trimmed) ==
    LET colon == IndexOfChar(trimmed, ":")
        rest  == TrimStart(SubSeq(trimmed, colon + 1, Len(trimmed)))
    IN IF colon <= 1 THEN NoMatch
       ELSE IF StartsWith(rest, GrantedKey \o TrueText)
            THEN [matched |-> TRUE, name |-> SubSeq(trimmed, 1, colon - 1), granted |-> TRUE]
       ELSE IF StartsWith(rest, GrantedKey \o FalseText)
            THEN [matched |-> TRUE, name |-> SubSeq(trimmed, 1, colon - 1), granted |-> FALSE]
       ELSE NoMatch

\* ScanStep without the test of the section flag
ScanStepAnywhere(line, inPermissionsSection, permissions) ==
    LET trimmed == Trim(line)
        match   == MatchPermission(trimmed)
    IN IF match.matched
       THEN [inSection   |-> inPermissionsSection,
             permissions |-> Append(permissions,
                                    [name |-> match.name, granted |-> match.granted])]
       ELSE [inSection |-> inPermissionsSection, permissions |-> permissions]

\* ScanStep leaving the section at every line that is not recorded
ScanStepEndingOnMiss(line, inPermissionsSection, permissions) ==
    LET trimmed == Trim(line)
        match   == MatchPermission(trimmed)
    IN IF StartsWith(trimmed, RuntimePermissionsMarker)
       THEN [inSection |-> TRUE, permissions |-> permissions]
       ELSE IF ~inPermissionsSection
       THEN [inSection |-> FALSE, permissions |-> permissions]
       ELSE IF match.matched
       THEN [inSection   |-> TRUE,
             permissions |-> Append(permissions,
                                    [name |-> match.name, granted |-> match.granted])]
       ELSE [inSection |-> FALSE, permissions |-> permissions]

\* ScanStep entering the section only at a line that is the marker
ScanStepExactMarker(line, inPermissionsSection, permissions) ==
    LET trimmed == Trim(line)
        match   == MatchPermission(trimmed)
    IN IF trimmed = RuntimePermissionsMarker
       THEN [inSection |-> TRUE, permissions |-> permissions]
       ELSE IF ~inPermissionsSection
       THEN [inSection |-> FALSE, permissions |-> permissions]
       ELSE IF match.matched
       THEN [inSection   |-> TRUE,
             permissions |-> Append(permissions,
                                    [name |-> match.name, granted |-> match.granted])]
       ELSE [inSection |-> (trimmed # <<>>), permissions |-> permissions]

\* one iteration of the for loop
ScanStep(line, inPermissionsSection, permissions) ==
    LET trimmed == Trim(line)
        match   == MatchPermission(trimmed)
    IN IF StartsWith(trimmed, RuntimePermissionsMarker)
       THEN [inSection |-> TRUE, permissions |-> permissions]
       ELSE IF ~inPermissionsSection
       THEN [inSection |-> FALSE, permissions |-> permissions]
       ELSE IF match.matched
       THEN [inSection   |-> TRUE,
             permissions |-> Append(permissions,
                                    [name |-> match.name, granted |-> match.granted])]
       ELSE [inSection |-> (trimmed # <<>>), permissions |-> permissions]

\* the for loop over the lines of the dump
RECURSIVE ScanPermissions(_, _, _)
ScanPermissions(lines, inPermissionsSection, permissions) ==
    IF lines = <<>> THEN permissions
    ELSE LET next == ScanStep(Head(lines), inPermissionsSection, permissions)
         IN ScanPermissions(Tail(lines), next.inSection, next.permissions)

\* the characters of the modelled permission names, in collation order
Collation == <<".", "_", "a", "b", "c", "d", "x", "y">>

CollationRank(c) == CHOOSE i \in 1..Len(Collation) : Collation[i] = c

\* String.prototype.localeCompare on names over Collation
RECURSIVE LocaleCompare(_, _)
LocaleCompare(a, b) ==
    IF a = <<>> /\ b = <<>> THEN 0
    ELSE IF a = <<>> THEN -1
    ELSE IF b = <<>> THEN 1
    ELSE IF CollationRank(Head(a)) < CollationRank(Head(b)) THEN -1
    ELSE IF CollationRank(Head(a)) > CollationRank(Head(b)) THEN 1
    ELSE LocaleCompare(Tail(a), Tail(b))

\* the place of x in a sorted array: after every element not greater than it
RECURSIVE InsertByName(_, _)
InsertByName(sorted, x) ==
    IF sorted = <<>> THEN <<x>>
    ELSE IF LocaleCompare(x.name, Head(sorted).name) < 0 THEN <<x>> \o sorted
    ELSE <<Head(sorted)>> \o InsertByName(Tail(sorted), x)

\* permissions.sort((a, b) => a.name.localeCompare(b.name)): a stable sort
RECURSIVE SortByName(_)
SortByName(permissions) ==
    IF permissions = <<>> THEN <<>>
    ELSE InsertByName(SortByName(SubSeq(permissions, 1, Len(permissions) - 1)),
                      permissions[Len(permissions)])

\* the body of the try block on the trimmed tool output
ParsePermissions(output) ==
    SortByName(ScanPermissions(Split(output, "\n"), FALSE, <<>>))

\* getAppPermissions without its catch block
GetAppPermissionsNoCatch(o) ==
    LET r == ExecuteFinish(o) IN
    IF r.threw THEN r ELSE [r EXCEPT !.value = ParsePermissions(r.value)]

\* getAppPermissions from the completion of `dumpsys package` on: the catch
\* block turns a failure of execute into an empty list
GetAppPermissionsFinish(o) ==
    LET r == ExecuteFinish(o) IN
    IF r.threw
    THEN [threw |-> FALSE, value |-> <<>>, message |-> Undefined, log |-> r.log]
    ELSE [r EXCEPT !.value = ParsePermissions(r.value)]

\* C16: when `adb devices` succeeds and prints nothing, or the header line
\* only, getConnectedDevices throws nothing and returns the empty list.
C16_EmptyOrHeaderOnlyGivesNoDevices ==
    (/\ phase = "done"
     /\ ~ExecRejects(toolOutcome)
     /\ toolOutcome.stdout \in {<<>>, DeviceHeader, DeviceHeader \o <<"\n">>}) =>
        /\ ~callResult.threw
        /\ callResult.value = <<>>

\* the header line with its newline, as in the test of the repository
C16_Witness ==
    /\ phase = "done"
    /\ toolOutcome.spawned /\ toolOutcome.code = 0
    /\ toolOutcome.stdout = DeviceHeader \o <<"\n">>
    /\ callResult.value = <<>>

ModelPrefix == <<"m", "o", "d", "e", "l", ":">>

\* the model a device record carries
ModelOf(device) == IF "model" \in DOMAIN device THEN device.model ELSE Undefined

\* the value of the first `model:` token after the state field
ModelAttribute(fields) ==
    LET tokens == {k \in 3..Len(fields) : StartsWith(fields[k], ModelPrefix)} IN
    IF tokens = {} THEN Undefined
    ELSE LET k == CHOOSE t \in tokens : \A u \in tokens : t <= u
         IN SubSeq(fields[k], Len(ModelPrefix) + 1, Len(fields[k]))

\* C17: the record of a data row carries as its model the value of the
\* `model:` token among the tokens after the state field, and no model when
\* the row has no such token.
C17_ModelFromAttributeToken ==
    (phase = "done" /\ ~callResult.threw /\ toolOutcome.wellFormed) =>
        LET rows    == NonBlankRows(toolOutcome.rows)
            devices == callResult.value IN
        /\ Len(devices) = Len(rows)
        /\ \A k \in 1..Len(rows) :
              ModelOf(devices[k]) = ModelAttribute(SplitWhitespace(Trim(rows[k])))

(***************************************************************************)
(* SpecPermissions: one call of getAppPermissions on package dumps         *)
(***************************************************************************)
DumpLines ==
    { RuntimePermissionsMarker,
      <<" ", " ", "a", "b", ":", " ", "g", "r", "a", "n", "t", "e", "d", "=", "t", "r", "u", "e">>,
      <<" ", "a", ":", " ", "g", "r", "a", "n", "t", "e", "d", "=", "f", "a", "l", "s", "e", ",", " ", "x">>,
      <<"b", ":", "g", "r", "a", "n", "t", "e", "d", "=", "t", "r", "u", "e">>,
      <<" ", "c", ":", " ", "g", "r", "a", "n", "t", "e", "d", "=", "y", "y">>,
      <<" ", "r", "u", "n", "t", "i", "m", "e", " ", "p", "e", "r", "m", "i", "s", "s", "i", "o", "n", "s", ":", " ", "x">>,
      <<"x", " ">> \o RuntimePermissionsMarker,
      <<>> }

DumpText(lines) == Join(lines, "\n")

PermissionOutcomes ==
    {SpawnFailure @@ [lines |-> <<>>]}
    \cup
    {Exited(c, DumpText(lines), <<>>) @@ [lines |-> lines] :
        c \in {0, 1}, lines \in SeqsUpTo(DumpLines, MaxLines)}

InitPermissions ==
    /\ toolOutcome \in PermissionOutcomes
    /\ callResult = NoResult
    /\ phase = "ready"
    /\ AppIdle
    /\ RunIdle

GetAppPermissions ==
    /\ phase = "ready"
    /\ callResult' = GetAppPermissionsFinish(toolOutcome)
    /\ phase' = "done"
    /\ UNCHANGED <<toolOutcome, appVars, runVars>>

NextPermissions == GetAppPermissions

SpecPermissions == InitPermissions /\ [][NextPermissions]_vars

\* a line whose text, after leading whitespace, begins with the marker
IsMarkerLine(line) ==
    \E p \in 0..Len(line) :
        /\ IsBlankText(SubSeq(line, 1, p))
        /\ p + Len(RuntimePermissionsMarker) <= Len(line)
        /\ SubSeq(line, p + 1, p + Len(RuntimePermissionsMarker)) = RuntimePermissionsMarker

\* the records a line of the form `name: granted=<true|false>` stands for:
\* leading whitespace, a non-empty name without colon, a colon, optional
\* whitespace, `granted=`, then true or false
PermissionForms(line) ==
    {[name |-> SubSeq(line, p + 1, c - 1), granted |-> g] :
        <<p, c, q, g>> \in
            {w \in (0..Len(line)) \X (1..Len(line)) \X (1..Len(line)) \X BOOLEAN :
                LET word == GrantedKey \o (IF w[4] THEN TrueText ELSE FalseText) IN
                /\ IsBlankText(SubSeq(line, 1, w[1]))
                /\ w[1] + 1 < w[2]
                /\ line[w[1] + 1] \notin Whitespace
                /\ \A i \in (w[1] + 1)..(w[2] - 1) : line[i] # ":"
                /\ line[w[2]] = ":"
                /\ w[2] <= w[3]
                /\ IsBlankText(SubSeq(line, w[2] + 1, w[3]))
                /\ w[3] + Len(word) <= Len(line)
                /\ SubSeq(line, w[3] + 1, w[3] + Len(word)) = word}}

\* both line predicates, tabulated over the lines the dumps are made of
FormsOfLine == [line \in DumpLines |-> PermissionForms(line)]

MarkerLines == {line \in DumpLines : IsMarkerLine(line)}

BlankLines == {line \in DumpLines : IsBlankText(line)}

\* line i lies inside a permissions section: a marker line precedes it with
\* no blank line in between, and it is not itself a marker line
InsideSection(lines, i) ==
    /\ lines[i] \notin MarkerLines
    /\ \E j \in 1..(i - 1) :
          /\ lines[j] \in MarkerLines
          /\ \A k \in (j + 1)..(i - 1) : lines[k] \notin BlankLines

RecordedLines(lines) ==
    {i \in 1..Len(lines) : InsideSection(lines, i) /\ FormsOfLine[lines[i]] # {}}

Occurrences(xs, x) == Cardinality({k \in 1..Len(xs) : xs[k] = x})

\* C5: for a dump with a permissions section the result holds exactly the
\* records of the `name: granted=<true|false>` lines inside the section,
\* each as often as it occurs there, in ascending order of name.
C5_SectionRecordsSorted ==
    (phase = "done" /\ ~ExecRejects(toolOutcome)
        /\ \E j \in 1..Len(toolOutcome.lines) : toolOutcome.lines[j] \in MarkerLines) =>
        LET lines    == toolOutcome.lines
            result   == callResult.value
            recorded == RecordedLines(lines) IN
        /\ ~callResult.threw
        /\ Len(result) = Cardinality(recorded)
        /\ \A i \in recorded :
              \A r \in FormsOfLine[lines[i]] :
                 Occurrences(result, r) =
                    Cardinality({k \in recorded : r \in FormsOfLine[lines[k]]})
        /\ \A k \in 1..(Len(result) - 1) :
              LocaleCompare(result[k].name, result[k + 1].name) <= 0

\* two recorded lines out of name order, a form line before the section and
\* one after the blank line that ends it
C5_Witness ==
    /\ phase = "done" /\ ~ExecRejects(toolOutcome)
    /\ Len(callResult.value) = 2
    /\ \E i, j \in RecordedLines(toolOutcome.lines) :
          /\ i < j
          /\ \E a \in FormsOfLine[toolOutcome.lines[i]],
                b \in FormsOfLine[toolOutcome.lines[j]] :
                LocaleCompare(a.name, b.name) > 0
    /\ \E i \in 1..Len(toolOutcome.lines) :
          /\ FormsOfLine[toolOutcome.lines[i]] # {}
          /\ ~InsideSection(toolOutcome.lines, i)

\* C6: getAppPermissions never throws; it returns the empty list when the
\* invocation fails, when the dump has no section and when the section has
\* no line of the permission form.
C6_NeverThrowsEmptyOnFailure ==
    phase = "done" =>
        /\ ~callResult.threw
        /\ ExecRejects(toolOutcome) => callResult.value = <<>>
        /\ (\A j \in 1..Len(toolOutcome.lines) : toolOutcome.lines[j] \notin MarkerLines)
              => callResult.value = <<>>
        /\ RecordedLines(toolOutcome.lines) = {} => callResult.value = <<>>

\* the invocation fails although the tool had printed a whole section
C6_Witness ==
    /\ phase = "done"
    /\ ExecRejects(toolOutcome)
    /\ RecordedLines(toolOutcome.lines) # {}
    /\ ~callResult.threw
    /\ callResult.value = <<>>

(***************************************************************************)
(* TargetAppManager: the stored selection and the recent history           *)
(***************************************************************************)
HistoryCap == 10

\* Array.prototype.slice(0, n)
Take(xs, n) == SubSeq(xs, 1, IF Len(xs) < n THEN Len(xs) ELSE n)

NoDuplicates(xs) == \A i, j \in 1..Len(xs) : xs[i] = xs[j] => i = j

\* Array.prototype.includes
Includes(xs, x) == \E k \in 1..Len(xs) : xs[k] = x

\* addToHistory without the removal of the earlier occurrence
AddToHistoryKeepingOld(h, packageName) == Take(<<packageName>> \o h, HistoryCap)

\* addToHistory: the list written back to the global state
AddToHistory(h, packageName) ==
    Take(<<packageName>> \o SelectSeq(h, LAMBDA p : p # packageName), HistoryCap)

\* setSelectedApp, awaited to its end: the selection is stored, and a
\* non-empty package is moved to the front of the history
SetSelectedAppTo(packageName) ==
    /\ selected' = packageName
    /\ history' = IF Truthy(packageName) THEN AddToHistory(history, packageName) ELSE history
    /\ lastPackage' = IF Truthy(packageName) THEN packageName ELSE lastPackage

\* package names: "pa", "pb", ...
PackageLetters == <<"a", "b", "c", "d", "e", "f", "g", "h", "i", "j", "k", "l", "m", "n">>

Package(i) == <<"p", PackageLetters[i]>>

(***************************************************************************)
(* SpecHistory: setSelectedApp calls, each completing before the next      *)
(***************************************************************************)
\* one package more than the history holds
NumPackages == HistoryCap + 1

\* the first package that is not in the history
FreshPackage ==
    Package(CHOOSE i \in 1..NumPackages :
                /\ ~Includes(history, Package(i))
                /\ \A j \in 1..(i - 1) : Includes(history, Package(j)))

\* the arguments of the next call: no package, the empty name, a package
\* that is not in the history, the newest, the middle or the oldest package
\* in it
NextSelections ==
    {Undefined, <<>>, FreshPackage}
    \cup (IF history = <<>> THEN {}
          ELSE {history[1], history[(Len(history) + 1) \div 2], history[Len(history)]})

InitHistory ==
    /\ CallIdle
    /\ AppIdle
    /\ RunIdle

SetSelectedApp ==
    /\ calls < MaxCalls
    /\ \E packageName \in NextSelections : SetSelectedAppTo(packageName)
    /\ calls' = calls + 1
    /\ UNCHANGED <<callVars, items, picked, pickSources, runVars>>

NextHistory == SetSelectedApp

SpecHistory == InitHistory /\ [][NextHistory]_vars

\* C1: after any sequence of completed setSelectedApp calls the history has
\* no duplicates, at most 10 entries, and starts with the package of the
\* latest call that selected one.
C1_HistoryInvariant ==
    /\ NoDuplicates(history)
    /\ Len(history) <= 10
    /\ lastPackage # Undefined => (history # <<>> /\ history[1] = lastPackage)

\* a full history whose oldest entry was dropped and whose front was
\* re-selected from the back
C1_Witness ==
    /\ Len(history) = 10
    /\ ~Includes(history, Package(1))
    /\ history[1] = lastPackage
    /\ history[1] = Package(2)

(***************************************************************************)
(* TargetAppManager.pickApp                                                *)
(***************************************************************************)
CheckIcon == <<"$", "(", "c", "h", "e", "c", "k", ")">>

HistoryIcon == <<"$", "(", "h", "i", "s", "t", "o", "r", "y", ")">>

DeviceIcon == <<"$", "(", "d", "e", "v", "i", "c", "e", "-", "m", "o", "b", "i", "l", "e", ")">>

FileIcon == <<"$", "(", "f", "i", "l", "e", "-", "c", "o", "d", "e", ")">>

ManualLabel == <<"$", "(", "a", "d", "d", ")", " ", "E", "n", "t", "e", "r", " ", "M", "a", "n", "u", "a", "l", "l", "y", ".", ".", ".">>

Separator(title) == [kind |-> "separator", label |-> <<title>>, description |-> "none"]

\* an item labelled `${icon} ${pkg}`
PackageItem(icon, pkg, description) ==
    [kind |-> "item", label |-> icon \o <<" ">> \o pkg, description |-> description]

\* the items of the packages of a source that pass its duplicate test
ItemsOf(pkgs, icon, description, Offer(_)) ==
    LET offered == SelectSeq(pkgs, Offer) IN
    [k \in 1..Len(offered) |-> PackageItem(icon, offered[k], description)]

CurrentItems(current) ==
    IF Truthy(current)
    THEN <<Separator("Current Selection"),
           PackageItem(CheckIcon, current, "Currently Selected")>>
    ELSE <<>>

RecentItems(current, h) ==
    IF Len(h) > 0
    THEN <<Separator("Recent Apps")>>
            \o ItemsOf(h, HistoryIcon, "Recent", LAMBDA pkg : pkg # current)
    ELSE <<>>

\* the installed block without its duplicate test
InstalledItemsUnchecked(current, h, fetch) ==
    IF fetch.kind = "ok" /\ Len(fetch.list) > 0
    THEN <<Separator("Installed on Device")>>
            \o ItemsOf(fetch.list, DeviceIcon, "Installed", LAMBDA pkg : TRUE)
    ELSE <<>>

\* fetch.kind is "none" without client or device, "fail" when
\* getInstalledPackages throws, "ok" with its list otherwise
InstalledItems(current, h, fetch) ==
    IF fetch.kind = "ok" /\ Len(fetch.list) > 0
    THEN <<Separator("Installed on Device")>>
            \o ItemsOf(fetch.list, DeviceIcon, "Installed",
                       LAMBDA pkg : pkg # current /\ ~Includes(h, pkg))
    ELSE <<>>

DiscoveredItems(current, h, discovered) ==
    IF Len(discovered) > 0
    THEN <<Separator("Discovered in Workspace")>>
            \o ItemsOf(discovered, FileIcon, "Workspace",
                       LAMBDA pkg : pkg # current /\ ~Includes(h, pkg))
    ELSE <<>>

ManualItem == [kind |-> "item", label |-> ManualLabel, description |-> "none"]

\* the list without the manual entry
BuildItemsWithoutManual(current, h, fetch, discovered) ==
    CurrentItems(current)
        \o RecentItems(current, h)
        \o InstalledItems(current, h, fetch)
        \o DiscoveredItems(current, h, discovered)

\* the list handed to showQuickPick
BuildItems(current, h, fetch, discovered) ==
    CurrentItems(current)
        \o RecentItems(current, h)
        \o InstalledItems(current, h, fetch)
        \o DiscoveredItems(current, h, discovered)
        \o <<Separator("Other"), ManualItem>>

\* the package name taken from the label of the chosen item
PackageOfLabel(label) ==
    LET parts == Split(label, " ") IN
    IF Len(parts) > 1 THEN parts[2] ELSE label

(***************************************************************************)
(* SpecPick: pickApp calls, each completing before the next                *)
(***************************************************************************)
\* the package names known to the sources of pickApp
PickPackages == {Package(1), Package(2), Package(3)}

\* the packages of S in the order of Array.prototype.sort
RECURSIVE SortedFrom(_, _)
SortedFrom(S, i) ==
    IF i > Len(PackageLetters) THEN <<>>
    ELSE (IF Package(i) \in S THEN <<Package(i)>> ELSE <<>>) \o SortedFrom(S, i + 1)

SortedLists == {SortedFrom(S, 1) : S \in SUBSET PickPackages}

Fetches ==
    {[kind |-> "none", list |-> <<>>], [kind |-> "fail", list |-> <<>>]}
    \cup {[kind |-> "ok", list |-> l] : l \in SortedLists}

\* what the user types into the input box; Undefined when it is dismissed
ManualInputs == {Undefined, <<>>} \cup PickPackages

\* the histories the global state can hold over the packages of the sources
StoredHistories ==
    {h \in SeqsUpTo(PickPackages, Cardinality(PickPackages)) : NoDuplicates(h)}

\* the selection is kept per workspace and the history for all workspaces,
\* so a session starts with any stored selection beside any stored history
InitPick ==
    /\ CallIdle
    /\ selected \in {Undefined} \cup PickPackages
    /\ history \in StoredHistories
    /\ lastPackage = Undefined
    /\ calls = 0
    /\ items = <<>>
    /\ picked = Undefined
    /\ pickSources = NoSources
    /\ RunIdle

\* pickApp returning undefined with a cleared selection
PickNothingClearing ==
    /\ picked' = Undefined
    /\ selected' = Undefined
    /\ UNCHANGED <<history, lastPackage>>

\* the user dismisses the quick pick, or the input box, or enters nothing
PickNothing ==
    /\ picked' = Undefined
    /\ UNCHANGED <<selected, history, lastPackage>>

PickPackage(packageName) ==
    /\ SetSelectedAppTo(packageName)
    /\ picked' = packageName

\* what the sources gave this call, and what the user did with the quick pick
\* and the input box
UserDid(fetch, discovered, act) ==
    pickSources' = [fetch |-> fetch, discovered |-> discovered, act |-> act]

\* pickApp, awaited to its end, on what the sources give and the user does
PickAppFrom(fetches, discoveredLists, inputs) ==
    /\ calls' = calls + 1
    /\ \E fetch \in fetches, discovered \in discoveredLists :
          LET shown == BuildItems(selected, history, fetch, discovered) IN
          /\ items' = shown
          /\ \E choice \in 0..Len(shown) :
                \/ choice = 0 /\ PickNothing /\ UserDid(fetch, discovered, "dismissQuickPick")
                \/ /\ choice > 0
                   /\ shown[choice].kind = "item"
                   /\ IF shown[choice].label = ManualLabel
                      THEN \E input \in inputs :
                              IF Truthy(input)
                              THEN PickPackage(input) /\ UserDid(fetch, discovered, "input")
                              ELSE /\ PickNothing
                                   /\ UserDid(fetch, discovered,
                                              IF input = Undefined THEN "dismissInput"
                                                                   ELSE "emptyInput")
                      ELSE /\ PickPackage(PackageOfLabel(shown[choice].label))
                           /\ UserDid(fetch, discovered, "item")
    /\ UNCHANGED <<callVars, runVars>>

PickApp ==
    /\ calls < MaxPicks
    /\ PickAppFrom(Fetches, SortedLists, ManualInputs)

\* getSelectedApp, the query the logcat command and the device tree make
GetSelectedApp ==
    /\ picked' = selected
    /\ pickSources' = [pickSources EXCEPT !.act = "query"]
    /\ UNCHANGED <<callVars, selected, history, lastPackage, calls, items, runVars>>

NextPick ==
    \/ PickApp
    \/ GetSelectedApp

SpecPick == InitPick /\ [][NextPick]_vars

\* the positions of the items that offer a package
Candidates(shown) ==
    {k \in 1..Len(shown) : shown[k].kind = "item" /\ shown[k].description # "none"}

\* the priority of the source an item comes from
SourceRank(item) ==
    CASE item.description = "Currently Selected" -> 1
      [] item.description = "Recent" -> 2
      [] item.description = "Installed" -> 3
      [] item.description = "Workspace" -> 4

IconOf(item) ==
    CASE item.description = "Currently Selected" -> CheckIcon
      [] item.description = "Recent" -> HistoryIcon
      [] item.description = "Installed" -> DeviceIcon
      [] item.description = "Workspace" -> FileIcon

\* the package an item offers: its label without the icon and the space
Offered(item) == SubSeq(item.label, Len(IconOf(item)) + 2, Len(item.label))

InPriorityOrder(shown) ==
    \A i, j \in Candidates(shown) : i < j => SourceRank(shown[i]) <= SourceRank(shown[j])

\* C10 as stated: the sources appear in priority order and no package is
\* offered twice.
C10_PriorityOrderNoPackageTwice ==
    /\ InPriorityOrder(items)
    /\ \A i, j \in Candidates(items) : i < j => Offered(items[i]) # Offered(items[j])

\* C10 amended: the sources appear in priority order; a package offered as
\* the current selection or from the recent history is offered by no other
\* item; only the installed and the workspace source may offer the same
\* package.
C10_PriorityOrderHigherSourcesOnce ==
    /\ InPriorityOrder(items)
    /\ \A i, j \in Candidates(items) :
          (i < j /\ Offered(items[i]) = Offered(items[j]))
              => (SourceRank(items[i]) = 3 /\ SourceRank(items[j]) = 4)

\* all four sources know the package "pa": it is the current selection, so
\* it is offered once; "pb" is in the history, on the device and in the
\* workspace and is offered once; "pc" is on the device and in the workspace
\* and is offered by both
C10_Witness ==
    /\ Cardinality({k \in Candidates(items) : Offered(items[k]) = Package(1)}) = 1
    /\ Cardinality({k \in Candidates(items) : Offered(items[k]) = Package(2)}) = 1
    /\ Cardinality({k \in Candidates(items) : Offered(items[k]) = Package(3)}) = 2
    /\ \E k \in Candidates(items) : SourceRank(items[k]) = 1 /\ Offered(items[k]) = Package(1)
    /\ \E k \in Candidates(items) : SourceRank(items[k]) = 2 /\ Offered(items[k]) = Package(2)
    /\ \A i \in 1..3 : /\ Includes(pickSources.fetch.list, Package(i))
                       /\ Includes(pickSources.discovered, Package(i))

\* C11: the stored selection and the history change only in a pickApp call
\* in which the user chose a package item or entered a non-empty name;
\* dismissing the quick pick or the input box, entering nothing, and the
\* query getSelectedApp leave both as they were.
C11_ChangedOnlyByExplicitSelection ==
    [][/\ (selected' # selected \/ history' # history)
            => pickSources'.act \in {"item", "input"}
       /\ pickSources'.act \in {"dismissQuickPick", "dismissInput", "emptyInput", "query"}
            => (selected' = selected /\ history' = history)]_vars

\* the input box is dismissed while a selection and a history of two
\* packages are stored
C11_Witness ==
    /\ pickSources.act = "dismissInput"
    /\ Truthy(selected)
    /\ Len(history) = 2
    /\ picked = Undefined

\* the packages the items of one source offer
OfferedBy(shown, description) ==
    {Offered(shown[k]) : k \in {c \in Candidates(shown) : shown[c].description = description}}

\* C15: every list pickApp presents ends with the manual entry, whatever the
\* sources gave; when fetching the installed packages fails, the call goes
\* on and presents the current selection, the recent packages and the
\* discovered packages as it would without a device, and no installed one.
C15_ManualAlwaysFetchFailureTolerated ==
    /\ [](calls > 0 =>
            /\ Len(items) >= 2
            /\ items[Len(items)] = ManualItem
            /\ items[Len(items) - 1] = Separator("Other")
            /\ Cardinality({k \in 1..Len(items) : items[k].label = ManualLabel}) = 1)
    /\ [][(calls' = calls + 1 /\ pickSources'.fetch.kind = "fail") =>
            /\ pickSources'.act # "none"
            /\ OfferedBy(items', "Installed") = {}
            /\ OfferedBy(items', "Currently Selected")
                  = (IF Truthy(selected) THEN {selected} ELSE {})
            /\ OfferedBy(items', "Recent")
                  = {history[k] : k \in 1..Len(history)} \ {selected}
            /\ OfferedBy(items', "Workspace")
                  = {pkg \in PickPackages :
                        /\ Includes(pickSources'.discovered, pkg)
                        /\ pkg # selected
                        /\ ~Includes(history, pkg)}]_vars

\* fetching fails in a call that still offers the current selection, a
\* recent package and a discovered one
C15_Witness ==
    /\ pickSources.fetch.kind = "fail"
    /\ OfferedBy(items, "Currently Selected") # {}
    /\ OfferedBy(items, "Recent") # {}
    /\ OfferedBy(items, "Workspace") # {}
    /\ items[Len(items)] = ManualItem

(***************************************************************************)
(* The running extension: the output channel, the child processes and the  *)
(* command handlers                                                        *)
(***************************************************************************)
\* the mutable state the handlers work on, as one value
Now ==
    [log |-> log, invs |-> invs, handlers |-> handlers, messages |-> messages,
     webviewDevices |-> webviewDevices]

Commit(st) ==
    /\ log' = st.log
    /\ invs' = st.invs
    /\ handlers' = st.handlers
    /\ messages' = st.messages
    /\ webviewDevices' = st.webviewDevices

\* an output-channel line, with the number of the child process it is about
Tagged(entry, id) == [inv |-> id, kind |-> entry.kind, text |-> entry.text]

TagAll(entries, id) == [k \in 1..Len(entries) |-> Tagged(entries[k], id)]

NewProcess(kind, command, owner, purpose) ==
    [kind |-> kind, command |-> command, owner |-> owner, purpose |-> purpose,
     state |-> "running", chunks |-> 0]

\* execute up to its await, without the line it writes
StartExecuteUnlogged(st, command, owner, purpose) ==
    [st EXCEPT !.invs = Append(@, NewProcess("exec", command, owner, purpose))]

\* execute up to its await: the command line is written, the child process
\* started
StartExecute(st, command, owner, purpose) ==
    LET id == Len(st.invs) + 1 IN
    [st EXCEPT !.log  = Append(@, Tagged(ExecuteStart(command), id)),
               !.invs = Append(@, NewProcess("exec", command, owner, purpose))]

\* the child processes the AdbClient object keeps a reference to: its fields
\* are adbPath and outputChannel, the child of getLogcat is a local constant
RetainedChildren == {}

\* AdbWebviewProvider.refresh up to its await
Refresh(st, viewSet) ==
    IF viewSet THEN StartExecute(st, <<"devices">>, 0, "refresh") ELSE st

ShowMessage(st, h, kind, text) ==
    [st EXCEPT !.messages = Append(@, [handler |-> h, kind |-> kind, text |-> text])]

\* pickDevice up to its await
PickDeviceStart(st, h) ==
    StartExecute([st EXCEPT !.handlers[h].pc = "awaitDevices"],
                 <<"devices">>, h, "pickDevice")

\* the handler from `if (deviceId)` to the await of disconnectDevice
DisconnectDeviceStart(st, h, deviceId) ==
    StartExecute([st EXCEPT !.handlers[h].pc = "awaitDisconnect",
                            !.handlers[h].deviceId = deviceId],
                 <<"disconnect ">> \o deviceId, h, "disconnect")

IdsOf(devices) == [k \in 1..Len(devices) |-> devices[k].id]

\* pickDevice showing the quick pick for a single device too
AfterPickDeviceQueryAlwaysPrompting(st, h, r, viewSet) ==
    IF r.threw
    THEN [st EXCEPT !.handlers[h].pc = "rejected"]
    ELSE IF Len(r.value) = 0
    THEN ShowMessage([st EXCEPT !.handlers[h].pc = "done"], h, "error",
                     <<"No devices connected">>)
    ELSE [st EXCEPT !.handlers[h].pc = "awaitPick",
                    !.handlers[h].choices = IdsOf(r.value)]

\* pickDevice after getConnectedDevices, and the handler as far as it gets:
\* a failure of the query leaves pickDevice and the handler as a rejection
AfterPickDeviceQuery(st, h, r, viewSet) ==
    IF r.threw
    THEN [st EXCEPT !.handlers[h].pc = "rejected"]
    ELSE IF Len(r.value) = 0
    THEN ShowMessage([st EXCEPT !.handlers[h].pc = "done"], h, "error",
                     <<"No devices connected">>)
    ELSE IF Len(r.value) = 1
    THEN DisconnectDeviceStart(st, h, r.value[1].id)
    ELSE [st EXCEPT !.handlers[h].pc = "awaitPick",
                    !.handlers[h].choices = IdsOf(r.value)]

\* the try block of the disconnect handler after the await
AfterDisconnect(st, h, r, viewSet) ==
    IF r.threw
    THEN ShowMessage([st EXCEPT !.handlers[h].pc = "done"], h, "error", r.message)
    ELSE Refresh(ShowMessage([st EXCEPT !.handlers[h].pc = "done"], h, "info",
                             <<"Disconnect Result: ">> \o r.value),
                 viewSet)

\* refresh after the await: the devices are posted, a failure is dropped
AfterRefresh(st, r) ==
    IF r.threw THEN st ELSE [st EXCEPT !.webviewDevices = r.value]

(***************************************************************************)
(* SpecRun: overlapping disconnect commands and webview refreshes          *)
(***************************************************************************)
RunDeviceId == <<"e", "1">>

RunDeviceRows ==
    { <<>>,
      << <<"e", "1", " ", "d", "e", "v", "i", "c", "e">> >>,
      << <<"e", "1", " ", "d", "e", "v", "i", "c", "e">>,
         <<"1", ".", "2", ":", "5", " ", "d", "e", "v", "i", "c", "e", " ", "m", ":", "x">> >> }

RunDeviceOutcomes ==
    {SpawnFailure} \cup {Exited(0, DeviceListText(rows, FALSE), <<>>) : rows \in RunDeviceRows}

RunToolOutcomes ==
    {SpawnFailure, Exited(0, <<"o", "k">>, <<>>), Exited(1, <<>>, <<"e">>)}

InitRun ==
    /\ CallIdle
    /\ AppIdle
    /\ RunIdle

\* resolveWebviewView: the view is kept and refreshed
ResolveWebviewView ==
    /\ ~view
    /\ view' = TRUE
    /\ Commit(Refresh(Now, TRUE))
    /\ UNCHANGED <<callVars, appVars>>

\* the adb-pro.disconnect handler up to its first await
RunDisconnectCommand(args) ==
    /\ \E arg \in args :
          LET h  == Len(handlers) + 1
              st == [Now EXCEPT !.handlers =
                        Append(@, [command |-> "disconnect", pc |-> "start",
                                   deviceId |-> Undefined, choices |-> <<>>])]
          IN Commit(IF Truthy(arg) THEN DisconnectDeviceStart(st, h, arg)
                                   ELSE PickDeviceStart(st, h))
    /\ UNCHANGED <<callVars, appVars, view>>

DisconnectCommand ==
    /\ Len(handlers) < MaxCommands
    /\ RunDisconnectCommand({Undefined, RunDeviceId})

\* a child process of execute ends: execute logs and returns or throws, and
\* its caller runs on to its next await
ToolExit ==
    /\ \E i \in 1..Len(invs) :
          /\ invs[i].kind = "exec"
          /\ invs[i].state = "running"
          /\ \E o \in (IF invs[i].purpose \in {"disconnect", "direct"}
                      THEN RunToolOutcomes ELSE RunDeviceOutcomes) :
                LET r  == IF invs[i].purpose \in {"disconnect", "direct"}
                          THEN ExecuteFinish(o) ELSE GetConnectedDevicesFinish(o)
                    st == [Now EXCEPT !.log = @ \o TagAll(r.log, i),
                                      !.invs[i].state = IF r.threw THEN "failed" ELSE "exited"]
                IN Commit(CASE invs[i].purpose = "refresh" -> AfterRefresh(st, r)
                            [] invs[i].purpose = "pickDevice" ->
                                  AfterPickDeviceQuery(st, invs[i].owner, r, view)
                            [] invs[i].purpose = "disconnect" ->
                                  AfterDisconnect(st, invs[i].owner, r, view)
                            [] invs[i].purpose = "direct" -> st)
    /\ UNCHANGED <<callVars, appVars, view>>

\* the user answers the device quick pick of pickDevice, or dismisses it
QuickPickDevice ==
    /\ \E h \in 1..Len(handlers) :
          /\ handlers[h].pc = "awaitPick"
          /\ \E choice \in {Undefined} \cup {handlers[h].choices[k] : k \in 1..Len(handlers[h].choices)} :
                Commit(IF Truthy(choice)
                       THEN DisconnectDeviceStart(Now, h, choice)
                       ELSE [Now EXCEPT !.handlers[h].pc = "done"])
    /\ UNCHANGED <<callVars, appVars, view>>

NextRun ==
    \/ ResolveWebviewView
    \/ DisconnectCommand
    \/ ToolExit
    \/ QuickPickDevice

SpecRun == InitRun /\ [][NextRun]_vars

\* the output-channel entries about one child process, as positions in the log
EntriesOf(i) == {k \in 1..Len(log) : log[k].inv = i}

\* the error.message of a failed child process, as execute logged it
CauseOf(i) ==
    LET k == CHOOSE k \in EntriesOf(i) : log[k].kind = "error" IN Tail(log[k].text)

ErrorMessagesOf(h) ==
    {k \in 1..Len(messages) : messages[k].handler = h /\ messages[k].kind = "error"}

\* C7: whenever a child process started for a user command fails, that
\* command has shown exactly one error message, the message carries the
\* cause of the failure, and the command has not started the same tool
\* command a second time; the device query of pickDevice is included.
C7_FailureShownOnceNeverRetried ==
    \A i \in 1..Len(invs) :
        (invs[i].owner # 0 /\ invs[i].state = "failed") =>
            /\ Cardinality(ErrorMessagesOf(invs[i].owner)) = 1
            /\ \A k \in ErrorMessagesOf(invs[i].owner) :
                   messages[k].text = <<"ADB Error: ">> \o CauseOf(i)
            /\ \A j \in 1..Len(invs) :
                   (j # i /\ invs[j].owner = invs[i].owner) =>
                       invs[j].command # invs[i].command

(***************************************************************************)
(* SpecStream: overlapping AdbClient calls and logcat streams              *)
(***************************************************************************)
InitStream ==
    /\ CallIdle
    /\ AppIdle
    /\ RunIdle

\* AdbClient.disconnectDevice up to the await in execute
DisconnectDevice ==
    /\ Len(invs) < MaxInvocations
    /\ Commit(StartExecute(Now, <<"disconnect ">> \o RunDeviceId, 0, "direct"))
    /\ UNCHANGED <<callVars, appVars, view>>

\* getLogcat with a pid argument whatever the pid is
LogcatArgsPidAlways(deviceId, pid, level) ==
    <<"-s", deviceId, "logcat", "-v", "time">>
        \o <<<<"--pid=">> \o pid>>
        \o (IF Truthy(level) THEN <<<<"*:">> \o level>> ELSE <<>>)

LogcatArgs(deviceId, pid, level) ==
    <<"-s", deviceId, "logcat", "-v", "time">>
        \o (IF Truthy(pid) THEN <<<<"--pid=">> \o pid>> ELSE <<>>)
        \o (IF Truthy(level) THEN <<<<"*:">> \o level>> ELSE <<>>)

\* getLogcat as one step: the start line is written, the child spawned and
\* the three listeners registered
StartLogcat(st, deviceId, pid, level, owner) ==
    LET id == Len(st.invs) + 1 IN
    [st EXCEPT !.log  = Append(@, [inv |-> id, kind |-> "start",
                                   text |-> <<"Starting Logcat for device ">>
                                               \o deviceId \o <<"...">>]),
               !.invs = Append(@, NewProcess("logcat", LogcatArgs(deviceId, pid, level),
                                             owner, "logcat"))]

\* getLogcat called from outside a command
GetLogcat ==
    /\ Len(invs) < MaxInvocations
    /\ \E pid \in {Undefined, <<"4", "2">>}, level \in {Undefined, <<"W">>} :
          Commit(StartLogcat(Now, RunDeviceId, pid, level, 0))
    /\ UNCHANGED <<callVars, appVars, view>>

\* a 'data' event of the standard output or standard error of a stream
LogcatData ==
    /\ \E i \in 1..Len(invs), stream \in {"stdout", "stderr"} :
          /\ invs[i].kind = "logcat"
          /\ invs[i].state = "running"
          /\ Len(log) < MaxLog
          /\ log' = Append(log, [inv |-> i, kind |-> "data", text |-> <<stream>>])
          /\ invs' = [invs EXCEPT ![i].chunks = @ + 1]
    /\ UNCHANGED <<callVars, appVars, handlers, messages, view, webviewDevices>>

\* the 'close' event: the process has ended and its streams are closed
LogcatClose ==
    /\ \E i \in 1..Len(invs), code \in {"0", "1"} :
          /\ invs[i].kind = "logcat"
          /\ invs[i].state = "running"
          /\ log' = Append(log, [inv |-> i, kind |-> "exit",
                                 text |-> <<"Logcat process exited with code ", code>>])
          /\ invs' = [invs EXCEPT ![i].state = "exited"]
    /\ UNCHANGED <<callVars, appVars, handlers, messages, view, webviewDevices>>

NextStream ==
    \/ DisconnectDevice
    \/ ToolExit
    \/ GetLogcat
    \/ LogcatData
    \/ LogcatClose

SpecStream == InitStream /\ [][NextStream]_vars

\* the kind of entry each child process is opened with: execute writes the
\* command line, getLogcat the line announcing the device
OpeningKind(i) == IF invs[i].kind = "exec" THEN "cmd" ELSE "start"

OpeningText(i) ==
    IF invs[i].kind = "exec"
    THEN <<"> ">> \o FullCommand(invs[i].command)
    ELSE <<"Starting Logcat for device ">> \o invs[i].command[2] \o <<"...">>

\* the first entry about the child process is its opening entry, and it is
\* the only opening entry about it
OpenedFirst(i, kind) ==
    /\ EntriesOf(i) # {}
    /\ \A k \in EntriesOf(i) :
           (log[k].kind = kind) <=> (\A m \in EntriesOf(i) : k <= m)

LogOnlyGrows ==
    /\ Len(log') >= Len(log)
    /\ SubSeq(log', 1, Len(log)) = log

EveryEntryHasProcess == \A k \in 1..Len(log) : log[k].inv \in 1..Len(invs)

\* C8: a logcat session ends when, and only when, its process exits or a
\* stop request kills it; every running session can be reached by a stop
\* request, and nothing of a session is written after its exit entry.
C8_StopAvailableNoOutputAfterEnd ==
    \A i \in 1..Len(invs) :
        invs[i].kind = "logcat" =>
            /\ invs[i].state = "running" => i \in RetainedChildren
            /\ invs[i].state = "running" =>
                   \A k \in EntriesOf(i) : log[k].kind # "exit"
            /\ invs[i].state = "exited" =>
                   \E k \in EntriesOf(i) :
                       /\ log[k].kind = "exit"
                       /\ \A m \in EntriesOf(i) : m <= k

PackagePrefix == <<"p", "a", "c", "k", "a", "g", "e", ":">>

\* the characters of the package lists, in the order of their UTF-16 code
\* units
CodeUnitOrder ==
    <<"\t", "\n", "\r", " ", ".", ":", "B", "a", "b", "c", "e", "g", "k", "p", "x">>

CodeUnit(c) == CHOOSE i \in 1..Len(CodeUnitOrder) : CodeUnitOrder[i] = c

\* the comparison of Array.prototype.sort without a comparator: -1, 0 or 1
RECURSIVE CompareCodeUnits(_, _)
CompareCodeUnits(a, b) ==
    IF a = <<>> /\ b = <<>> THEN 0
    ELSE IF a = <<>> THEN -1
    ELSE IF b = <<>> THEN 1
    ELSE IF CodeUnit(Head(a)) < CodeUnit(Head(b)) THEN -1
    ELSE IF CodeUnit(Head(a)) > CodeUnit(Head(b)) THEN 1
    ELSE CompareCodeUnits(Tail(a), Tail(b))

RECURSIVE InsertByCodeUnits(_, _)
InsertByCodeUnits(sorted, x) ==
    IF sorted = <<>> THEN <<x>>
    ELSE IF CompareCodeUnits(x, Head(sorted)) < 0 THEN <<x>> \o sorted
    ELSE <<Head(sorted)>> \o InsertByCodeUnits(Tail(sorted), x)

\* Array.prototype.sort() on strings
RECURSIVE SortByCodeUnits(_)
SortByCodeUnits(xs) ==
    IF xs = <<>> THEN <<>>
    ELSE InsertByCodeUnits(SortByCodeUnits(SubSeq(xs, 1, Len(xs) - 1)), xs[Len(xs)])

\* String.prototype.replace with a string pattern: the first occurrence
RemoveFirst(s, p) ==
    IF \E i \in 1..(Len(s) - Len(p) + 1) : SubSeq(s, i, i + Len(p) - 1) = p
    THEN LET i == CHOOSE k \in 1..(Len(s) - Len(p) + 1) :
                      /\ SubSeq(s, k, k + Len(p) - 1) = p
                      /\ \A j \in 1..(k - 1) : SubSeq(s, j, j + Len(p) - 1) # p
         IN SubSeq(s, 1, i - 1) \o SubSeq(s, i + Len(p), Len(s))
    ELSE s

\* split, trim, filter and replace of getInstalledPackages
PackageNamesOf(output) ==
    LET lines    == Split(output, "\n")
        trimmed  == [k \in 1..Len(lines) |-> Trim(lines[k])]
        prefixed == SelectSeq(trimmed, LAMBDA line : StartsWith(line, PackagePrefix))
    IN [k \in 1..Len(prefixed) |-> RemoveFirst(prefixed[k], PackagePrefix)]

\* getInstalledPackages without the sort
GetInstalledPackagesUnsorted(o) ==
    LET r == ExecuteFinish(o) IN
    IF r.threw THEN r ELSE [r EXCEPT !.value = PackageNamesOf(r.value)]

\* getInstalledPackages from the completion of the child process on
GetInstalledPackagesFinish(o) ==
    LET r == ExecuteFinish(o) IN
    IF r.threw THEN r ELSE [r EXCEPT !.value = SortByCodeUnits(PackageNamesOf(r.value))]

PackageLines ==
    { <<"p", "a", "c", "k", "a", "g", "e", ":", "b">>,
      <<"p", "a", "c", "k", "a", "g", "e", ":", "a", ".", "b">>,
      <<" ", "p", "a", "c", "k", "a", "g", "e", ":", "B", "\r">>,
      <<"p", "a", "c", "k", "a", "g", "e", ":">>,
      <<"x", "p", "a", "c", "k", "a", "g", "e", ":", "a">>,
      <<"p", "a", "c", "k", "a", "g", "e", " ", "a">>,
      <<>> }

PackageOutcomes ==
    {SpawnFailure @@ [lines |-> <<>>]}
    \cup
    {Exited(c, Join(lines, "\n"), <<>>) @@ [lines |-> lines] :
        c \in {0, 1}, lines \in SeqsUpTo(PackageLines, MaxPackageLines)}

InitPackages ==
    /\ toolOutcome \in PackageOutcomes
    /\ callResult = NoResult
    /\ phase = "ready"
    /\ AppIdle
    /\ RunIdle

GetInstalledPackages ==
    /\ phase = "ready"
    /\ callResult' = GetInstalledPackagesFinish(toolOutcome)
    /\ phase' = "done"
    /\ UNCHANGED <<toolOutcome, appVars, runVars>>

NextPackages == GetInstalledPackages

SpecPackages == InitPackages /\ [][NextPackages]_vars

\* the names a line of the list stands for: whitespace, the prefix, then the
\* name up to the last character that is not whitespace
PackageForms(line) ==
    {SubSeq(line, p + Len(PackagePrefix) + 1, q) :
        <<p, q>> \in
            {w \in (0..Len(line)) \X (0..Len(line)) :
                /\ IsBlankText(SubSeq(line, 1, w[1]))
                /\ w[1] + Len(PackagePrefix) <= w[2]
                /\ SubSeq(line, w[1] + 1, w[1] + Len(PackagePrefix)) = PackagePrefix
                /\ IsBlankText(SubSeq(line, w[2] + 1, Len(line)))
                /\ line[w[2]] \notin Whitespace}}

NamesOfLine == [line \in PackageLines |-> PackageForms(line)]

\* C12: when the invocation succeeds, getInstalledPackages returns the
\* names of exactly the lines that begin, after trimming, with `package:`,
\* each as often as it occurs, in ascending order of code units; the other
\* lines contribute nothing.
C12_PrefixedLinesSorted ==
    (phase = "done" /\ ~ExecRejects(toolOutcome)) =>
        LET lines  == toolOutcome.lines
            result == callResult.value
            listed == {i \in 1..Len(lines) : NamesOfLine[lines[i]] # {}} IN
        /\ ~callResult.threw
        /\ Len(result) = Cardinality(listed)
        /\ \A i \in listed :
              \A name \in NamesOfLine[lines[i]] :
                 Occurrences(result, name) =
                    Cardinality({k \in listed : name \in NamesOfLine[lines[k]]})
        /\ \A k \in 1..(Len(result) - 1) :
              CompareCodeUnits(result[k], result[k + 1]) <= 0

\* a list of three lines: a listed line, a line that holds the prefix but
\* does not begin with it and is dropped, and an indented line ending in a
\* carriage return whose name sorts first
C12_Witness ==
    /\ phase = "done" /\ ~ExecRejects(toolOutcome)
    /\ Len(toolOutcome.lines) = 3
    /\ callResult.value = << <<"B">>, <<"a", ".", "b">> >>
    /\ toolOutcome.lines[1] = <<"p", "a", "c", "k", "a", "g", "e", ":", "a", ".", "b">>
    /\ toolOutcome.lines[2] = <<"x", "p", "a", "c", "k", "a", "g", "e", ":", "a">>

(***************************************************************************)
(* SpecPid: one call of getPidForPackage on pidof outputs                  *)
(***************************************************************************)
\* the try block of getPidForPackage after the await
FirstTokenOf(output) == SplitWhitespace(Trim(output))[1]

\* getPidForPackage without its catch
GetPidForPackageNoCatch(o) ==
    LET r == ExecuteFinish(o) IN
    IF r.threw THEN r ELSE [r EXCEPT !.value = FirstTokenOf(r.value)]

\* getPidForPackage from the completion of the child process on: the error
\* of execute is caught and undefined returned
GetPidForPackageFinish(o) ==
    LET r == ExecuteFinish(o) IN
    IF r.threw
    THEN [r EXCEPT !.threw = FALSE, !.value = Undefined, !.message = Undefined]
    ELSE [r EXCEPT !.value = FirstTokenOf(r.value)]

PidOutcomes ==
    {SpawnFailure} \cup
    {Exited(c, out, <<>>) : c \in {0, 1},
                           out \in SeqsUpTo({"4", "2", " ", "\n"}, MaxPidChars)}

InitPid ==
    /\ toolOutcome \in PidOutcomes
    /\ callResult = NoResult
    /\ phase = "ready"
    /\ AppIdle
    /\ RunIdle

GetPidForPackage ==
    /\ phase = "ready"
    /\ callResult' = GetPidForPackageFinish(toolOutcome)
    /\ phase' = "done"
    /\ UNCHANGED <<toolOutcome, appVars, runVars>>

NextPid == GetPidForPackage

SpecPid == InitPid /\ [][NextPid]_vars

\* token is the first maximal run of characters of text that are not
\* whitespace
IsFirstToken(text, token) ==
    \E p \in 0..Len(text) :
        /\ IsBlankText(SubSeq(text, 1, p))
        /\ token # <<>>
        /\ p + Len(token) <= Len(text)
        /\ SubSeq(text, p + 1, p + Len(token)) = token
        /\ \A i \in 1..Len(token) : token[i] \notin Whitespace
        /\ (p + Len(token) < Len(text) => text[p + Len(token) + 1] \in Whitespace)

\* C13: getPidForPackage never throws; when the invocation succeeds with an
\* output that holds a token it returns the first token; when the output is
\* empty or blank, or the invocation fails, it returns no process id
\* (undefined after a failure, the empty string for an empty output).
C13_FirstTokenOrNotFound ==
    phase = "done" =>
        /\ ~callResult.threw
        /\ ExecRejects(toolOutcome) => callResult.value = Undefined
        /\ (~ExecRejects(toolOutcome) /\ IsBlankText(toolOutcome.stdout))
              => callResult.value = <<>>
        /\ (~ExecRejects(toolOutcome) /\ ~IsBlankText(toolOutcome.stdout))
              => IsFirstToken(toolOutcome.stdout, callResult.value)
        /\ Truthy(callResult.value)
              <=> (~ExecRejects(toolOutcome) /\ ~IsBlankText(toolOutcome.stdout))

\* pidof prints two process ids after a blank: the first is returned
C13_Witness ==
    /\ phase = "done"
    /\ toolOutcome.spawned /\ toolOutcome.code = 0
    /\ toolOutcome.stdout = <<" ", "4", "\n", "2">>
    /\ callResult.value = <<"4">>

(***************************************************************************)
(* SpecLogcat: the adb-pro.logcat command from the level quick pick on     *)
(***************************************************************************)
LogcatPidOutcomes ==
    { SpawnFailure,
      Exited(1, <<>>, <<>>),
      Exited(0, <<>>, <<>>),
      Exited(0, <<"4", "2", "\n">>, <<>>),
      Exited(0, <<"4", " ", "2">>, <<>>) }

PidofCommand(deviceId, packageName) ==
    <<"-s ">> \o deviceId \o <<" shell pidof ">> \o packageName

InitLogcat ==
    /\ CallIdle
    /\ AppIdle
    /\ RunIdle

\* the handler with the device, the package and the level chosen: with a
\* package it awaits getPidForPackage, without one it calls getLogcat
LogcatCommand ==
    /\ Len(handlers) < MaxCommands
    /\ \E packageName \in {Undefined, Package(1)}, level \in {Undefined, <<"W">>} :
          LET h  == Len(handlers) + 1
              st == [Now EXCEPT !.handlers =
                        Append(@, [command |-> "logcat",
                                   pc |-> IF Truthy(packageName) THEN "awaitPid" ELSE "done",
                                   deviceId |-> RunDeviceId, packageName |-> packageName,
                                   level |-> level, pid |-> Undefined])]
          IN Commit(IF Truthy(packageName)
                    THEN StartExecute(st, PidofCommand(RunDeviceId, packageName), h, "pidof")
                    ELSE StartLogcat(st, RunDeviceId, Undefined, level, h))
    /\ UNCHANGED <<callVars, appVars, view>>

\* the pidof process ends: getPidForPackage returns, the handler warns when
\* there is no pid and calls getLogcat
PidofExit ==
    /\ \E i \in 1..Len(invs), o \in LogcatPidOutcomes :
          /\ invs[i].purpose = "pidof"
          /\ invs[i].state = "running"
          /\ LET h   == invs[i].owner
                 r   == GetPidForPackageFinish(o)
                 st  == [Now EXCEPT !.log = @ \o TagAll(r.log, i),
                                    !.invs[i].state = IF ExecRejects(o) THEN "failed"
                                                                        ELSE "exited",
                                    !.handlers[h].pid = r.value,
                                    !.handlers[h].pc = "done"]
                 st2 == IF Truthy(r.value) THEN st
                        ELSE ShowMessage(st, h, "warning",
                                         <<"Could not find PID for package: ">>
                                            \o handlers[h].packageName
                                            \o <<". Showing all logs.">>)
             IN Commit(StartLogcat(st2, handlers[h].deviceId, r.value,
                                   handlers[h].level, h))
    /\ UNCHANGED <<callVars, appVars, view>>

NextLogcat ==
    \/ LogcatCommand
    \/ PidofExit
    \/ LogcatData
    \/ LogcatClose

SpecLogcat == InitLogcat /\ [][NextLogcat]_vars

\* the --pid= arguments among the arguments of a logcat process
PidArgs(args) == {k \in 6..Len(args) : args[k][1] = "--pid="}

\* the pidof process of a handler, 0 when it started none
PidofOf(h) ==
    IF \E i \in 1..Len(invs) : invs[i].owner = h /\ invs[i].purpose = "pidof"
    THEN CHOOSE i \in 1..Len(invs) : invs[i].owner = h /\ invs[i].purpose = "pidof"
    ELSE 0

\* what pidof printed, from the output channel: the empty text when it
\* printed nothing or failed
PidofPrinted(i) ==
    IF \E k \in EntriesOf(i) : log[k].kind = "stdout"
    THEN log[CHOOSE k \in EntriesOf(i) : log[k].kind = "stdout"].text
    ELSE <<>>

\* C14: a handler whose pid lookup found nothing has not failed: it has
\* shown no error, has warned, and has started the stream without a pid
\* argument; the stream of a handler has the argument --pid=<pid> exactly
\* when pidof succeeded and printed a process id, and <pid> is its first
\* token.
C14_PidArgIffResolved ==
    \A h \in 1..Len(handlers) :
        handlers[h].pc = "done" =>
            LET streams  == {i \in 1..Len(invs) : invs[i].owner = h /\ invs[i].kind = "logcat"}
                p        == PidofOf(h)
                resolved == /\ p # 0
                            /\ invs[p].state = "exited"
                            /\ ~IsBlankText(PidofPrinted(p))
            IN /\ Cardinality(streams) = 1
               /\ ErrorMessagesOf(h) = {}
               /\ \A i \in streams :
                      /\ (PidArgs(invs[i].command) # {}) <=> resolved
                      /\ \A k \in PidArgs(invs[i].command) :
                             /\ k = 6
                             /\ IsFirstToken(PidofPrinted(p), Tail(invs[i].command[k]))
               /\ (p # 0 /\ ~resolved) =>
                      \E m \in 1..Len(messages) :
                          messages[m].handler = h /\ messages[m].kind = "warning"

\* pidof exits with status 1 for the chosen package and the stream runs
\* with the level filter only, after a warning
C14_Witness ==
    \E h \in 1..Len(handlers), i \in 1..Len(invs) :
        /\ handlers[h].pc = "done"
        /\ PidofOf(h) # 0
        /\ invs[PidofOf(h)].state = "failed"
        /\ invs[i].owner = h /\ invs[i].kind = "logcat" /\ invs[i].state = "running"
        /\ Len(invs[i].command) = 6
        /\ invs[i].command[6] = <<"*:", "W">>
        /\ \E m \in 1..Len(messages) : messages[m].kind = "warning"

(***************************************************************************)
(* SpecSteps: overlapping calls of the AdbClient methods that run several  *)
(* commands                                                                *)
(***************************************************************************)
RemotePath == <<"/sdcard/screenshot.png">>

LocalPath == <<"/tmp/s.png">>

\* the commands of a method, in the order of its awaits
StepsOf(method, deviceId, enable) ==
    CASE method = "restartServer" ->
            << <<"kill-server">>, <<"start-server">> >>
      [] method = "toggleAirplaneMode" ->
            << <<"-s ">> \o deviceId \o <<" shell settings put global airplane_mode_on ",
                                          IF enable THEN "1" ELSE "0">>,
               <<"-s ">> \o deviceId
                   \o <<" shell am broadcast -a android.intent.action.AIRPLANE_MODE --ez state ",
                        IF enable THEN "true" ELSE "false">> >>
      [] method = "takeScreenshot" ->
            << <<"-s ">> \o deviceId \o <<" shell screencap -p ">> \o RemotePath,
               <<"-s ">> \o deviceId \o <<" pull ">> \o RemotePath
                   \o <<" \"">> \o LocalPath \o <<"\"">>,
               <<"-s ">> \o deviceId \o <<" shell rm ">> \o RemotePath >>

RECURSIVE StartAll(_, _, _, _)
StartAll(st, h, steps, k) ==
    IF k > Len(steps) THEN st
    ELSE StartAll(StartExecute(st, steps[k], h, "step"), h, steps, k + 1)

\* a method that starts all its commands without awaiting any
BeginMethodAllAtOnce(st, h) == StartAll(st, h, st.handlers[h].steps, 1)

\* a method up to its first await
BeginMethod(st, h) == StartExecute(st, st.handlers[h].steps[1], h, "step")

\* a method that starts a failed command again
AfterStepRetrying(st, h, r) ==
    IF r.threw
    THEN StartExecute(st, st.handlers[h].steps[st.handlers[h].step], h, "step")
    ELSE IF st.handlers[h].step < Len(st.handlers[h].steps)
    THEN StartExecute([st EXCEPT !.handlers[h].step = @ + 1],
                      st.handlers[h].steps[st.handlers[h].step + 1], h, "step")
    ELSE [st EXCEPT !.handlers[h].pc = "done"]

\* a method that goes on to its next command whatever the last one did
AfterStepIgnoringFailure(st, h, r) ==
    IF st.handlers[h].step < Len(st.handlers[h].steps)
    THEN StartExecute([st EXCEPT !.handlers[h].step = @ + 1],
                      st.handlers[h].steps[st.handlers[h].step + 1], h, "step")
    ELSE [st EXCEPT !.handlers[h].pc = IF r.threw THEN "rejected" ELSE "done"]

\* a method after an await: the error of execute leaves the method, the
\* next command is started, or the method returns
AfterStep(st, h, r) ==
    IF r.threw THEN [st EXCEPT !.handlers[h].pc = "rejected"]
    ELSE IF st.handlers[h].step < Len(st.handlers[h].steps)
    THEN StartExecute([st EXCEPT !.handlers[h].step = @ + 1],
                      st.handlers[h].steps[st.handlers[h].step + 1], h, "step")
    ELSE [st EXCEPT !.handlers[h].pc = "done"]

StepOutcomes == {Exited(0, <<"o", "k">>, <<>>), Exited(1, <<>>, <<"e">>)}

InitSteps ==
    /\ CallIdle
    /\ AppIdle
    /\ RunIdle

\* restartServer, toggleAirplaneMode or takeScreenshot is called
CallMethod ==
    /\ Len(handlers) <= MaxCommands
    /\ Len(invs) < MaxStepInvocations
    /\ \E call \in {<<"restartServer", TRUE>>, <<"toggleAirplaneMode", TRUE>>,
                    <<"toggleAirplaneMode", FALSE>>, <<"takeScreenshot", TRUE>>} :
          LET h  == Len(handlers) + 1
              st == [Now EXCEPT !.handlers =
                        Append(@, [command |-> call[1], pc |-> "awaiting", step |-> 1,
                                   steps |-> StepsOf(call[1], RunDeviceId, call[2])])]
          IN Commit(BeginMethod(st, h))
    /\ UNCHANGED <<callVars, appVars, view>>

\* the child process of a step ends and the method runs on to its next await
StepExit ==
    /\ \E i \in 1..Len(invs), o \in StepOutcomes :
          /\ invs[i].purpose = "step"
          /\ invs[i].state = "running"
          /\ LET r   == ExecuteFinish(o)
                 st  == [Now EXCEPT !.log = @ \o TagAll(r.log, i),
                                    !.invs[i].state = IF r.threw THEN "failed" ELSE "exited"]
                 nxt == AfterStep(st, invs[i].owner, r)
             IN /\ Len(nxt.invs) <= MaxStepInvocations
                /\ Commit(nxt)
    /\ UNCHANGED <<callVars, appVars, view>>

NextSteps ==
    \/ CallMethod
    \/ StepExit

SpecSteps == InitSteps /\ [][NextSteps]_vars

\* the child processes of one method call, in the order they were started
ProcessesOf(h) == SelectSeq([i \in 1..Len(invs) |-> i], LAMBDA i : invs[i].owner = h)

\* C18: of the child processes of one call of restartServer,
\* toggleAirplaneMode or takeScreenshot at most one is running; they were
\* started in the order of the method's commands, each after the one before
\* it had ended.
C18_OneStepInFlightInOrder ==
    \A h \in 1..Len(handlers) :
        LET ps == ProcessesOf(h) IN
        /\ Cardinality({k \in 1..Len(ps) : invs[ps[k]].state = "running"}) <= 1
        /\ Len(ps) <= Len(handlers[h].steps)
        /\ \A k \in 1..Len(ps) :
              /\ invs[ps[k]].command = handlers[h].steps[k]
              /\ k < Len(ps) => invs[ps[k]].state # "running"
              /\ k < Len(ps) =>
                     \E m \in EntriesOf(ps[k]) :
                         /\ log[m].kind \in {"stdout", "error"}
                         /\ \A n \in EntriesOf(ps[k + 1]) : m < n

\* takeScreenshot is at its third command while the first command of a
\* restartServer call is still running
C18_Witness ==
    \E h, g \in 1..Len(handlers) :
        /\ handlers[h].command = "takeScreenshot"
        /\ Len(ProcessesOf(h)) = 3
        /\ invs[ProcessesOf(h)[3]].state = "running"
        /\ handlers[g].command = "restartServer"
        /\ Len(ProcessesOf(g)) = 1
        /\ invs[ProcessesOf(g)[1]].state = "running"
        /\ ProcessesOf(h)[1] < ProcessesOf(g)[1]
        /\ ProcessesOf(g)[1] < ProcessesOf(h)[3]

(***************************************************************************)
(* SpecCommands: overlapping calls of connectToDevice, installApk and      *)
(* uninstallApp                                                            *)
(***************************************************************************)
\* the argument of execute in connectToDevice
ConnectToDevice(ip) == <<"connect ">> \o ip

\* installApk without the device selection
InstallApkAnyDevice(deviceId, apkPath) ==
    <<"install -r \"">> \o apkPath \o <<"\"">>

\* the argument of execute in installApk
InstallApk(deviceId, apkPath) ==
    <<"-s ">> \o deviceId \o <<" install -r \"">> \o apkPath \o <<"\"">>

\* the argument of execute in uninstallApp
UninstallApp(deviceId, packageName) ==
    <<"-s ">> \o deviceId \o <<" uninstall ">> \o packageName

OtherDeviceId == <<"1", ".", "2", ":", "5">>

ApkPath == <<"/", "a", ".", "a", "p", "k">>

\* the calls made: the method, the device or address, and the file or
\* package
CommandCalls ==
    { [method |-> "connectToDevice", target |-> OtherDeviceId, what |-> <<>>],
      [method |-> "installApk", target |-> RunDeviceId, what |-> ApkPath],
      [method |-> "installApk", target |-> OtherDeviceId, what |-> ApkPath],
      [method |-> "uninstallApp", target |-> RunDeviceId, what |-> Package(1)],
      [method |-> "uninstallApp", target |-> OtherDeviceId, what |-> Package(1)] }

CommandOfCall(call) ==
    CASE call.method = "connectToDevice" -> ConnectToDevice(call.target)
      [] call.method = "installApk" -> InstallApk(call.target, call.what)
      [] call.method = "uninstallApp" -> UninstallApp(call.target, call.what)

InitCommands ==
    /\ CallIdle
    /\ AppIdle
    /\ RunIdle

\* one of the three methods is called: it runs up to the await in execute
CallCommand ==
    /\ Len(handlers) <= MaxCommands
    /\ \E call \in CommandCalls :
          LET h  == Len(handlers) + 1
              st == [Now EXCEPT !.handlers =
                        Append(@, [command |-> call.method, pc |-> "awaiting",
                                   call |-> call, result |-> NoResult])]
          IN Commit(StartExecute(st, CommandOfCall(call), h, "command"))
    /\ UNCHANGED <<callVars, appVars, view>>

\* the child process ends: the method returns what execute returns, or
\* throws what execute throws
CommandExit ==
    /\ \E i \in 1..Len(invs), o \in StepOutcomes :
          /\ invs[i].purpose = "command"
          /\ invs[i].state = "running"
          /\ LET r == ExecuteFinish(o) IN
             Commit([Now EXCEPT !.log = @ \o TagAll(r.log, i),
                                !.invs[i].state = IF r.threw THEN "failed" ELSE "exited",
                                !.handlers[invs[i].owner].pc =
                                    IF r.threw THEN "rejected" ELSE "done",
                                !.handlers[invs[i].owner].result = r])
    /\ UNCHANGED <<callVars, appVars, view>>

NextCommands ==
    \/ CallCommand
    \/ CommandExit

SpecCommands == InitCommands /\ [][NextCommands]_vars

\* C19: every call of connectToDevice, installApk and uninstallApp has
\* started exactly one child process, also after it has ended or failed;
\* its command is `connect <address>`, `-s <deviceId> install -r "<apkPath>"`
\* or `-s <deviceId> uninstall <package>` with the arguments of the call, so
\* the device named after -s is the device given.
C19_OneCallOneCommand ==
    \A h \in 1..Len(handlers) :
        LET ps   == ProcessesOf(h)
            call == handlers[h].call IN
        /\ Len(ps) = 1
        /\ call.method = "connectToDevice" =>
               invs[ps[1]].command = <<"connect ">> \o call.target
        /\ call.method = "installApk" =>
               invs[ps[1]].command =
                  <<"-s ">> \o call.target \o <<" install -r \"">> \o call.what \o <<"\"">>
        /\ call.method = "uninstallApp" =>
               invs[ps[1]].command =
                  <<"-s ">> \o call.target \o <<" uninstall ">> \o call.what
        /\ log[CHOOSE k \in EntriesOf(ps[1]) : log[k].kind = "cmd"].text
              = <<"> ">> \o AdbPath \o <<" ">> \o invs[ps[1]].command

\* an install on one device has failed while an uninstall on the other
\* device is running
C19_Witness ==
    \E h, g \in 1..Len(handlers) :
        /\ handlers[h].call.method = "installApk"
        /\ handlers[h].call.target = RunDeviceId
        /\ handlers[h].pc = "rejected"
        /\ handlers[g].call.method = "uninstallApp"
        /\ handlers[g].call.target = OtherDeviceId
        /\ handlers[g].pc = "awaiting"

(***************************************************************************)
(* SpecPickDevice: disconnect commands without argument or with one, no    *)
(* webview                                                                 *)
(***************************************************************************)
InitPickDevice ==
    /\ CallIdle
    /\ AppIdle
    /\ RunIdle

\* the command is run without argument, possibly while an earlier run is
\* still waiting
DisconnectCommandNoView ==
    /\ Len(invs) < MaxPickInvocations
    /\ RunDisconnectCommand({Undefined})

NextPickDevice ==
    \/ DisconnectCommandNoView
    \/ ToolExit
    \/ QuickPickDevice

SpecPickDevice == InitPickDevice /\ [][NextPickDevice]_vars

\* the pickDevice query of a handler, 0 when it made none
PickDeviceQueryOf(h) ==
    IF \E i \in 1..Len(invs) : invs[i].owner = h /\ invs[i].purpose = "pickDevice"
    THEN CHOOSE i \in 1..Len(invs) : invs[i].owner = h /\ invs[i].purpose = "pickDevice"
    ELSE 0

\* the identifiers each device list of the runs stands for
ListedIn ==
    [text \in {DeviceListText(rows, FALSE) : rows \in RunDeviceRows} |->
        IdsOf(ParseDevices(Trim(text)))]

\* the identifiers `adb devices` listed, from what the output channel holds
ListedBy(i) == ListedIn[PidofPrinted(i)]

\* C20: after a successful device query, pickDevice with an empty list
\* returns nothing and shows the error 'No devices connected'; with one
\* device it returns that device's identifier without a quick pick; with
\* more it shows the quick pick of the listed identifiers and returns the
\* chosen one, or nothing when the quick pick is dismissed; what it returns
\* is always a listed identifier.
C20_PickDeviceReturnsListedDevice ==
    \A h \in 1..Len(handlers) :
        LET q == PickDeviceQueryOf(h) IN
        (q # 0 /\ invs[q].state = "exited") =>
            LET listed == ListedBy(q)
                noDevicesShown ==
                    {k \in ErrorMessagesOf(h) : messages[k].text = <<"No devices connected">>}
            IN /\ Len(listed) = 0 =>
                      /\ handlers[h].pc = "done"
                      /\ handlers[h].deviceId = Undefined
                      /\ handlers[h].choices = <<>>
                      /\ Cardinality(noDevicesShown) = 1
                      /\ Len(ProcessesOf(h)) = 1
               /\ Len(listed) = 1 =>
                      /\ handlers[h].deviceId = listed[1]
                      /\ handlers[h].choices = <<>>
                      /\ noDevicesShown = {}
               /\ Len(listed) > 1 =>
                      /\ handlers[h].choices = listed
                      /\ noDevicesShown = {}
                      /\ \/ handlers[h].pc = "awaitPick" /\ handlers[h].deviceId = Undefined
                         \/ handlers[h].pc = "done" /\ handlers[h].deviceId = Undefined
                         \/ Includes(listed, handlers[h].deviceId)
               /\ Truthy(handlers[h].deviceId) => Includes(listed, handlers[h].deviceId)

\* two devices are listed and the user picks the second one, which is then
\* disconnected
C20_Witness ==
    \E h \in 1..Len(handlers) :
        /\ PickDeviceQueryOf(h) # 0
        /\ Len(handlers[h].choices) = 2
        /\ handlers[h].deviceId = handlers[h].choices[2]
        /\ Len(ProcessesOf(h)) = 2
        /\ invs[ProcessesOf(h)[2]].command = <<"disconnect ">> \o handlers[h].choices[2]

(***************************************************************************)
(* SpecTree: the commands that change the set of connected devices, and    *)
(* the refresh command, with the device tree view shown                    *)
(***************************************************************************)
\* DeviceTreeProvider.refresh: the change event is fired and the tree view
\* asks getChildren for its root items, which queries the devices
TreeRefresh(st) == StartExecute(st, <<"devices">>, 0, "tree")

\* getChildren after the await: a failure of the query is shown
AfterTreeQuery(st, r) ==
    IF r.threw
    THEN ShowMessage(st, 0, "error", <<"Failed to get devices: ">> \o r.message)
    ELSE st

\* the connect handler after the input box
AfterInputBox(st, h, ip) ==
    IF Truthy(ip)
    THEN StartExecute([st EXCEPT !.handlers[h].pc = "awaitConnect"],
                      ConnectToDevice(ip), h, "connect")
    ELSE [st EXCEPT !.handlers[h].pc = "done"]

\* the try block of the connect handler after the await
AfterConnect(st, h, r, viewSet) ==
    IF r.threw
    THEN ShowMessage([st EXCEPT !.handlers[h].pc = "done"], h, "error", r.message)
    ELSE Refresh(ShowMessage([st EXCEPT !.handlers[h].pc = "done"], h, "info",
                             <<"Connect Result: ">> \o r.value),
                 viewSet)

\* restartServer after an await, and the try block of its handler once the
\* method has returned or thrown
AfterRestartServer(st, h, r, viewSet) ==
    LET nxt == AfterStep(st, h, r) IN
    CASE nxt.handlers[h].pc = "rejected" ->
            ShowMessage([nxt EXCEPT !.handlers[h].pc = "done"], h, "error", r.message)
      [] nxt.handlers[h].pc = "done" ->
            Refresh(ShowMessage(nxt, h, "info", <<"Restart Server Result: ">> \o r.value),
                    viewSet)
      [] OTHER -> nxt

MaxTreeCommands == 2  \* command handler runs in SpecTree

InitTree ==
    /\ CallIdle
    /\ AppIdle
    /\ RunIdle

\* the adb-pro.connect handler up to the input box
ConnectCommand ==
    /\ Len(handlers) < MaxTreeCommands
    /\ Commit([Now EXCEPT !.handlers =
                  Append(@, [command |-> "connect", pc |-> "awaitInput"])])
    /\ UNCHANGED <<callVars, appVars, view>>

\* the user answers the input box, leaves it empty or dismisses it
InputBoxAnswer ==
    /\ \E h \in 1..Len(handlers), ip \in {Undefined, <<>>, OtherDeviceId} :
          /\ handlers[h].pc = "awaitInput"
          /\ Commit(AfterInputBox(Now, h, ip))
    /\ UNCHANGED <<callVars, appVars, view>>

\* the adb-pro.disconnect handler called from the tree item of a device
TreeDisconnectCommand ==
    /\ Len(handlers) < MaxTreeCommands
    /\ RunDisconnectCommand({RunDeviceId})

\* the adb-pro.restartServer handler up to its first await
RestartServerCommand ==
    /\ Len(handlers) < MaxTreeCommands
    /\ LET h  == Len(handlers) + 1
           st == [Now EXCEPT !.handlers =
                     Append(@, [command |-> "restartServer", pc |-> "awaiting", step |-> 1,
                                steps |-> StepsOf("restartServer", RunDeviceId, TRUE)])]
       IN Commit(BeginMethod(st, h))
    /\ UNCHANGED <<callVars, appVars, view>>

\* the adb-pro.refresh handler: both views are refreshed
RefreshCommand ==
    /\ Len(handlers) < MaxTreeCommands
    /\ LET st == [Now EXCEPT !.handlers =
                     Append(@, [command |-> "refresh", pc |-> "done"])]
       IN Commit(TreeRefresh(Refresh(st, view)))
    /\ UNCHANGED <<callVars, appVars, view>>

\* a child process ends: execute logs and returns or throws, and its caller
\* runs on to its next await
TreeToolExit ==
    /\ \E i \in 1..Len(invs) :
          /\ invs[i].state = "running"
          /\ \E o \in (IF invs[i].purpose = "tree" THEN RunDeviceOutcomes ELSE RunToolOutcomes) :
                LET r  == IF invs[i].purpose = "tree"
                          THEN GetConnectedDevicesFinish(o) ELSE ExecuteFinish(o)
                    st == [Now EXCEPT !.log = @ \o TagAll(r.log, i),
                                      !.invs[i].state = IF r.threw THEN "failed" ELSE "exited"]
                IN Commit(CASE invs[i].purpose = "tree" -> AfterTreeQuery(st, r)
                            [] invs[i].purpose = "connect" ->
                                  AfterConnect(st, invs[i].owner, r, view)
                            [] invs[i].purpose = "disconnect" ->
                                  AfterDisconnect(st, invs[i].owner, r, view)
                            [] invs[i].purpose = "step" ->
                                  AfterRestartServer(st, invs[i].owner, r, view))
    /\ UNCHANGED <<callVars, appVars, view>>

NextTree ==
    \/ ConnectCommand
    \/ InputBoxAnswer
    \/ TreeDisconnectCommand
    \/ RestartServerCommand
    \/ RefreshCommand
    \/ TreeToolExit

SpecTree == InitTree /\ [][NextTree]_vars

\* the command of handler h has succeeded: its result was shown
Succeeded(h) ==
    \E k \in 1..Len(messages) : messages[k].handler = h /\ messages[k].kind = "info"

\* C21: once a connect, disconnect or restart-server command has succeeded,
\* the device tree view has been refreshed: a device query of the tree was
\* started after the last child process of the command.
C21_TreeRefreshedAfterDeviceChange ==
    \A h \in 1..Len(handlers) :
        (handlers[h].command \in {"connect", "disconnect", "restartServer"} /\ Succeeded(h)) =>
            \E i \in 1..Len(invs) :
                /\ invs[i].purpose = "tree"
                /\ \A k \in 1..Len(ProcessesOf(h)) : ProcessesOf(h)[k] < i

(***************************************************************************)
(* getAppPermissions: where the permissions section starts and ends        *)
(***************************************************************************)
\* the last line before line i that is blank or begins with the marker; 0
\* when there is none
LastBoundary(lines, i) ==
    LET bs == {j \in 1..(i - 1) : lines[j] \in MarkerLines \cup BlankLines} IN
    IF bs = {} THEN 0 ELSE CHOOSE j \in bs : \A k \in bs : k <= j

\* the lines of the permission form that follow a marker line with lines of
\* any kind but blank ones in between
KeptLines(lines) ==
    {i \in 1..Len(lines) :
        /\ FormsOfLine[lines[i]] # {}
        /\ lines[i] \notin MarkerLines
        /\ LastBoundary(lines, i) > 0
        /\ lines[LastBoundary(lines, i)] \in MarkerLines}

\* the lines of the permission form whose last boundary is a blank line
EndedLines(lines) ==
    {i \in 1..Len(lines) :
        /\ FormsOfLine[lines[i]] # {}
        /\ LastBoundary(lines, i) > 0
        /\ lines[LastBoundary(lines, i)] \in BlankLines}

\* the lines that are neither blank, nor marker lines, nor of the form
SkippedLines(lines) ==
    {i \in 1..Len(lines) :
        lines[i] \notin MarkerLines \cup BlankLines /\ FormsOfLine[lines[i]] = {}}

\* C22: a line of the permission form is recorded when the last blank or
\* marker line before it is a marker line, whatever other lines lie in
\* between, and is not recorded when that line is a blank one: the result
\* has one record for each line of the first kind and no others.
C22_BlankEndsSectionOtherLinesSkipped ==
    (phase = "done" /\ ~ExecRejects(toolOutcome)) =>
        LET lines  == toolOutcome.lines
            result == callResult.value IN
        /\ Len(result) = Cardinality(KeptLines(lines))
        /\ \A i \in KeptLines(lines) :
              \A r \in FormsOfLine[lines[i]] : \E k \in 1..Len(result) : result[k] = r
        /\ \A i \in EndedLines(lines) :
              \A r \in FormsOfLine[lines[i]] :
                 Occurrences(result, r) =
                    Cardinality({k \in KeptLines(lines) : r \in FormsOfLine[lines[k]]})

\* a line of the form is recorded although a line that is neither blank nor
\* of the form lies between it and the marker line
C22_Witness ==
    /\ phase = "done" /\ ~ExecRejects(toolOutcome)
    /\ Len(callResult.value) = 1
    /\ \E s \in SkippedLines(toolOutcome.lines), i \in KeptLines(toolOutcome.lines) :
          /\ LastBoundary(toolOutcome.lines, i) < s
          /\ s < i

\* the lines that are the marker once trimmed
ExactMarkerLines == {line \in DumpLines : Trim(line) = RuntimePermissionsMarker}

\* C23 as stated: only a line that equals the marker once trimmed starts a
\* section, so a dump without such a line gives no record.
C23_SectionStartsOnlyAtExactMarker ==
    (phase = "done" /\ ~ExecRejects(toolOutcome)
        /\ \A j \in 1..Len(toolOutcome.lines) : toolOutcome.lines[j] \notin ExactMarkerLines)
        => callResult.value = <<>>

\* C23, amended: a section starts at every line that begins with the marker
\* once trimmed, also when other characters follow the marker, and at no
\* other line: the line of the form right after such a line is recorded,
\* and a result with a record has a line beginning with the marker before a
\* line of the form; a line holding the marker elsewhere starts nothing.
C23_SectionStartsAtMarkerPrefix ==
    (phase = "done" /\ ~ExecRejects(toolOutcome)) =>
        LET lines  == toolOutcome.lines
            result == callResult.value IN
        /\ \A j \in 1..(Len(lines) - 1) :
              (StartsWith(Trim(lines[j]), RuntimePermissionsMarker)
                  /\ ~StartsWith(Trim(lines[j + 1]), RuntimePermissionsMarker)) =>
                  \A r \in FormsOfLine[lines[j + 1]] : \E k \in 1..Len(result) : result[k] = r
        /\ result # <<>> =>
              \E j \in 1..Len(lines) :
                 /\ StartsWith(Trim(lines[j]), RuntimePermissionsMarker)
                 /\ \E i \in (j + 1)..Len(lines) : FormsOfLine[lines[i]] # {}

\* a line that begins with the marker and goes on starts a section in a dump
\* without a line that is the marker alone; a line of the form after a line
\* that holds the marker elsewhere is not recorded
C23_Witness ==
    /\ phase = "done" /\ ~ExecRejects(toolOutcome)
    /\ \A j \in 1..Len(toolOutcome.lines) : toolOutcome.lines[j] \notin ExactMarkerLines
    /\ Len(callResult.value) = 1
    /\ \E j \in 1..Len(toolOutcome.lines) :
          /\ toolOutcome.lines[j] \notin MarkerLines
          /\ ~StartsWith(Trim(toolOutcome.lines[j]), RuntimePermissionsMarker)
          /\ toolOutcome.lines[j] = <<"x", " ">> \o RuntimePermissionsMarker
          /\ j + 1 \in EndedLines(toolOutcome.lines) \cup
                       {i \in 1..Len(toolOutcome.lines) :
                           FormsOfLine[toolOutcome.lines[i]] # {}
                           /\ LastBoundary(toolOutcome.lines, i) = 0}

(***************************************************************************)
(* SpecSteps: what a failing command does to the rest of its method        *)
(***************************************************************************)
\* the two commands of toggleAirplaneMode on the device of the calls
PutAirplaneSetting(enable) ==
    <<"-s ">> \o RunDeviceId
        \o <<" shell settings put global airplane_mode_on ", IF enable THEN "1" ELSE "0">>

BroadcastAirplaneMode(enable) ==
    <<"-s ">> \o RunDeviceId
        \o <<" shell am broadcast -a android.intent.action.AIRPLANE_MODE --ez state ",
             IF enable THEN "true" ELSE "false">>

\* C24: a call of toggleAirplaneMode starts the command that writes the
\* setting, and the broadcast only after that command has succeeded, with
\* the same state; it starts no other command, so after a failed broadcast
\* the call is rejected with the setting written and neither command is
\* started again.
C24_SettingThenBroadcastNoRollback ==
    \A h \in 1..Len(handlers) :
        handlers[h].command = "toggleAirplaneMode" =>
            LET ps == ProcessesOf(h) IN
            \E enable \in BOOLEAN :
                /\ Len(ps) \in {1, 2}
                /\ invs[ps[1]].command = PutAirplaneSetting(enable)
                /\ Len(ps) = 2 =>
                      /\ invs[ps[1]].state = "exited"
                      /\ invs[ps[2]].command = BroadcastAirplaneMode(enable)
                /\ invs[ps[Len(ps)]].state = "failed" <=> handlers[h].pc = "rejected"
                /\ invs[ps[Len(ps)]].state = "failed" =>
                      \E k \in EntriesOf(ps[Len(ps)]) : log[k].kind = "error"

\* the broadcast of a call has failed after its setting was written
C24_Witness ==
    \E h \in 1..Len(handlers) :
        /\ handlers[h].command = "toggleAirplaneMode"
        /\ Len(ProcessesOf(h)) = 2
        /\ invs[ProcessesOf(h)[1]].state = "exited"
        /\ invs[ProcessesOf(h)[2]].state = "failed"
        /\ handlers[h].pc = "rejected"

\* C27: a call of restartServer or takeScreenshot has started its k-th
\* command if and only if its first k - 1 commands have succeeded: after a
\* command that failed the call is rejected and has started nothing else,
\* so a failed screencap or pull leaves `rm` of the remote file unissued;
\* after a command that succeeded the next one is started, or the call
\* has returned.
C27_StepIssuedIffEarlierSucceeded ==
    \A h \in 1..Len(handlers) :
        handlers[h].command \in {"restartServer", "takeScreenshot"} =>
            LET ps    == ProcessesOf(h)
                total == IF handlers[h].command = "restartServer" THEN 2 ELSE 3
                last  == invs[ps[Len(ps)]] IN
            /\ Len(ps) \in 1..total
            /\ \A k \in 1..(Len(ps) - 1) : invs[ps[k]].state = "exited"
            /\ last.state = "exited" => (Len(ps) = total /\ handlers[h].pc = "done")
            /\ last.state = "failed" => handlers[h].pc = "rejected"
            /\ last.state = "running" => handlers[h].pc = "awaiting"
            /\ (handlers[h].command = "takeScreenshot" /\ Len(ps) < 3) =>
                  \A k \in 1..Len(ps) :
                     invs[ps[k]].command # <<"-s ">> \o RunDeviceId \o <<" shell rm ">> \o RemotePath

\* the pull of a takeScreenshot call has failed, and a restartServer call
\* has run both its commands
C27_Witness ==
    \E h, g \in 1..Len(handlers) :
        /\ handlers[h].command = "takeScreenshot"
        /\ Len(ProcessesOf(h)) = 2
        /\ invs[ProcessesOf(h)[2]].state = "failed"
        /\ handlers[h].pc = "rejected"
        /\ handlers[g].command = "restartServer"
        /\ handlers[g].pc = "done"

(***************************************************************************)
(* SpecOverlap: setSelectedApp calls that overlap.  Memento.update keeps   *)
(* the value at once and returns a promise; the order in which the         *)
(* promises of different calls resolve is the host's, not the code's       *)
(***************************************************************************)
MaxOverlap == 3  \* setSelectedApp calls in SpecOverlap

InitOverlap ==
    /\ CallIdle
    /\ AppIdle
    /\ RunIdle

\* setSelectedApp up to its first await: the selection is handed to the
\* workspace state
SetSelectedAppStart ==
    /\ Len(handlers) < MaxOverlap
    /\ \E packageName \in {Undefined, Package(1), Package(2)} :
          /\ selected' = packageName
          /\ lastPackage' = IF Truthy(packageName) THEN packageName ELSE lastPackage
          /\ handlers' = Append(handlers, [command |-> "setSelectedApp",
                                           pc |-> "awaitSelection",
                                           packageName |-> packageName])
    /\ calls' = calls + 1
    /\ UNCHANGED <<callVars, history, items, picked, pickSources,
                   log, invs, messages, view, webviewDevices>>

\* the promise of workspaceState.update resolves: addToHistory reads the
\* history and hands the new list to the global state, or, without a
\* package, the status bar is updated and the call returns
SetSelectedAppAfterSelection ==
    /\ \E h \in 1..Len(handlers) :
          /\ handlers[h].pc = "awaitSelection"
          /\ IF Truthy(handlers[h].packageName)
             THEN /\ history' = AddToHistory(history, handlers[h].packageName)
                  /\ handlers' = [handlers EXCEPT ![h].pc = "awaitHistory"]
             ELSE /\ history' = history
                  /\ handlers' = [handlers EXCEPT ![h].pc = "done"]
    /\ UNCHANGED <<callVars, selected, lastPackage, calls, items, picked, pickSources,
                   log, invs, messages, view, webviewDevices>>

\* the promise of globalState.update resolves: the status bar is updated
\* and the call returns
SetSelectedAppAfterHistory ==
    /\ \E h \in 1..Len(handlers) :
          /\ handlers[h].pc = "awaitHistory"
          /\ handlers' = [handlers EXCEPT ![h].pc = "done"]
    /\ UNCHANGED <<callVars, appVars, log, invs, messages, view, webviewDevices>>

NextOverlap ==
    \/ SetSelectedAppStart
    \/ SetSelectedAppAfterSelection
    \/ SetSelectedAppAfterHistory

SpecOverlap == InitOverlap /\ [][NextOverlap]_vars

\* C25: once every one of two or more setSelectedApp calls with a package
\* has returned, the first package of the history is the stored selection.
C25_HistoryHeadIsSelectionWhenAllDone ==
    (/\ Len(handlers) >= 2
     /\ \A h \in 1..Len(handlers) :
           handlers[h].pc = "done" /\ Truthy(handlers[h].packageName))
        => (history # <<>> /\ history[1] = selected)

(***************************************************************************)
(* SpecSteps: the remote file that overlapping takeScreenshot calls share. *)
(* A command acts on the device while its child process runs; it is taken  *)
(* to act when the process ends                                            *)
(***************************************************************************)
\* the place in the log of the entry written when child process i ended
EndEntryOf(i) == CHOOSE k \in EntriesOf(i) : log[k].kind \in {"stdout", "error"}

\* the child processes that have written or removed the remote file: the
\* screencap and rm commands that succeeded
FileChanges ==
    {i \in 1..Len(invs) :
        /\ invs[i].state = "exited"
        /\ invs[i].command \in
              {<<"-s ">> \o RunDeviceId \o <<" shell screencap -p ">> \o RemotePath,
               <<"-s ">> \o RunDeviceId \o <<" shell rm ">> \o RemotePath}}

\* the last child process to change the remote file before process p ended;
\* 0 when there is none
LastChangeBefore(p) ==
    LET cs == {i \in FileChanges : EndEntryOf(i) < EndEntryOf(p)} IN
    IF cs = {} THEN 0
    ELSE CHOOSE i \in cs : \A j \in cs : EndEntryOf(j) <= EndEntryOf(i)

\* C26: when the pull of a takeScreenshot call has ended, the remote file
\* was last changed by the screencap of the same call: not by the screencap
\* of another call, and not by the rm of another call.
C26_PullRetrievesOwnCapture ==
    \A h \in 1..Len(handlers) :
        (/\ handlers[h].command = "takeScreenshot"
         /\ Len(ProcessesOf(h)) >= 2
         /\ invs[ProcessesOf(h)[2]].state # "running")
            => LastChangeBefore(ProcessesOf(h)[2]) = ProcessesOf(h)[1]

(***************************************************************************)
(* SpecRun: the device lists that overlapping refreshes post               *)
(***************************************************************************)
\* the device queries of refresh that have posted their list
PostedRefreshes ==
    {i \in 1..Len(invs) : invs[i].purpose = "refresh" /\ invs[i].state = "exited"}

\* C28: the device list the webview holds is the list of the latest
\* started of the queries that have posted one: no query started earlier
\* has posted over it.
C28_PostedListIsOfLatestStartedQuery ==
    PostedRefreshes # {} =>
        LET latest == CHOOSE i \in PostedRefreshes : \A j \in PostedRefreshes : j <= i
        IN IdsOf(webviewDevices) = ListedBy(latest)

(***************************************************************************)
(* SpecLabel: pickApp on stored package names of any text.  The input box  *)
(* takes any text, so a name typed there and stored may hold spaces        *)
(***************************************************************************)
MaxLabelChars == 3  \* characters of a stored package name in SpecLabel

MaxLabelPicks == 1  \* pickApp calls in SpecLabel

LabelNames == SeqsUpTo({"a", " "}, MaxLabelChars) \ {<<>>}

InitLabel ==
    /\ CallIdle
    /\ selected \in {Undefined} \cup LabelNames
    /\ history \in {<<>>} \cup {<<name>> : name \in LabelNames}
    /\ lastPackage = Undefined
    /\ calls = 0
    /\ items = <<>>
    /\ picked = Undefined
    /\ pickSources = NoSources
    /\ RunIdle

\* pickApp without a device and without packages in the workspace
PickStoredApp ==
    /\ calls < MaxLabelPicks
    /\ PickAppFrom({[kind |-> "none", list |-> <<>>]}, {<<>>},
                   {Undefined, <<>>, <<"a">>, <<"a", " ", "a">>})

NextLabel == PickStoredApp

SpecLabel == InitLabel /\ [][NextLabel]_vars

\* C29: when the user chooses an item that offers a package, the package
\* stored and returned is one the items were built from: the selection or a
\* package of the history, of the device or of the workspace.
C29_ChosenItemStoresItsPackage ==
    [][pickSources'.act = "item" =>
          /\ selected' = picked'
          /\ \/ picked' = selected
             \/ Includes(history, picked')
             \/ Includes(pickSources'.fetch.list, picked')
             \/ Includes(pickSources'.discovered, picked')]_vars

(***************************************************************************)
(* SpecLoop: the adb-pro.setAppPermission command from its loop on, called *)
(* with a device and after pickApp has returned                            *)
(***************************************************************************)
CrossIcon == <<"$", "(", "x", ")">>

DoneLabel == <<"$", "(", "c", "l", "o", "s", "e", ")", " ", "D", "o", "n", "e">>

\* the quick-pick item of a permission
PermissionItem(p) ==
    [label       |-> (IF p.granted THEN CheckIcon ELSE CrossIcon) \o <<" ">> \o p.name,
     description |-> IF p.granted THEN "Granted" ELSE "Denied"]

PermissionItems(permissions) ==
    [k \in 1..Len(permissions) |-> PermissionItem(permissions[k])]
        \o <<[label |-> DoneLabel, description |-> "Exit permission manager"]>>

\* the argument of execute in getAppPermissions
DumpsysPackage(deviceId, packageName) ==
    <<"-s ">> \o deviceId \o <<" shell dumpsys package ">> \o packageName

\* the argument of execute in setAppPermission
SetAppPermission(deviceId, packageName, permission, grant) ==
    <<"-s ">> \o deviceId \o <<" shell pm ", IF grant THEN "grant" ELSE "revoke", " ">>
        \o packageName \o <<" ">> \o permission

\* the head of the loop up to the await in getAppPermissions
QueryPermissions(st, h) ==
    StartExecute([st EXCEPT !.handlers[h].pc = "awaitPermissions"],
                 DumpsysPackage(st.handlers[h].deviceId, st.handlers[h].packageName),
                 h, "permissions")

\* the loop from the list of getAppPermissions to the quick pick
AfterPermissions(st, h, r) ==
    [st EXCEPT !.handlers[h].pc = "awaitPick",
               !.handlers[h].permissions = r.value,
               !.handlers[h].items = PermissionItems(r.value)]

\* the loop after the quick pick, granting what is granted already
AfterPermissionPickKeepingState(st, h, choice) ==
    IF choice = 0
    THEN [st EXCEPT !.handlers[h].pc = "done", !.handlers[h].act = "dismiss"]
    ELSE IF st.handlers[h].items[choice].label = DoneLabel
    THEN [st EXCEPT !.handlers[h].pc = "done", !.handlers[h].act = "done"]
    ELSE LET permName  == PackageOfLabel(st.handlers[h].items[choice].label)
             isGranted == st.handlers[h].items[choice].description = "Granted"
         IN StartExecute([st EXCEPT !.handlers[h].pc = "awaitSet",
                                    !.handlers[h].act = "toggle",
                                    !.handlers[h].choice = choice,
                                    !.handlers[h].toggles = @ + 1],
                         SetAppPermission(st.handlers[h].deviceId, st.handlers[h].packageName,
                                          permName, isGranted),
                         h, "setPermission")

\* the loop after the quick pick: choice 0 is the dismissed quick pick
AfterPermissionPick(st, h, choice) ==
    IF choice = 0
    THEN [st EXCEPT !.handlers[h].pc = "done", !.handlers[h].act = "dismiss"]
    ELSE IF st.handlers[h].items[choice].label = DoneLabel
    THEN [st EXCEPT !.handlers[h].pc = "done", !.handlers[h].act = "done"]
    ELSE LET permName  == PackageOfLabel(st.handlers[h].items[choice].label)
             isGranted == st.handlers[h].items[choice].description = "Granted"
         IN StartExecute([st EXCEPT !.handlers[h].pc = "awaitSet",
                                    !.handlers[h].act = "toggle",
                                    !.handlers[h].choice = choice,
                                    !.handlers[h].toggles = @ + 1],
                         SetAppPermission(st.handlers[h].deviceId, st.handlers[h].packageName,
                                          permName, ~isGranted),
                         h, "setPermission")

\* the loop after the await of setAppPermission: the result is shown and the
\* loop starts again, or the error leaves the loop and is shown
AfterSetPermission(st, h, r) ==
    IF r.threw
    THEN ShowMessage([st EXCEPT !.handlers[h].pc = "done"], h, "error", r.message)
    ELSE QueryPermissions(
            ShowMessage(st, h, "info",
                        <<"Permission ",
                          IF st.handlers[h].items[st.handlers[h].choice].description = "Granted"
                          THEN "Revoked" ELSE "Granted",
                          ": ">> \o r.value),
            h)

MaxLoopCommands == 1     \* runs of the command in SpecLoop

MaxLoopInvocations == 5  \* child processes started in SpecLoop

\* the dumps of the package: two permissions, one permission, none, and the
\* tool failing
LoopDumpOutcomes ==
    {SpawnFailure,
     Exited(0, DumpText(<<RuntimePermissionsMarker>>), <<>>),
     Exited(0, DumpText(<<RuntimePermissionsMarker,
                          <<" ", " ", "a", "b", ":", " ", "g", "r", "a", "n", "t", "e", "d", "=", "t", "r", "u", "e">>,
                          <<" ", "a", ":", " ", "g", "r", "a", "n", "t", "e", "d", "=", "f", "a", "l", "s", "e", ",", " ", "x">> >>),
            <<>>),
     Exited(0, DumpText(<<RuntimePermissionsMarker,
                          <<"b", ":", "g", "r", "a", "n", "t", "e", "d", "=", "t", "r", "u", "e">> >>),
            <<>>)}

InitLoop ==
    /\ CallIdle
    /\ AppIdle
    /\ RunIdle

\* the handler from the package pickApp returned to the first await of the
\* loop
PermissionCommand ==
    /\ Len(handlers) < MaxLoopCommands
    /\ \E packageName \in {Undefined, Package(1)} :
          LET h  == Len(handlers) + 1
              st == [Now EXCEPT !.handlers =
                        Append(@, [command |-> "setAppPermission", pc |-> "done",
                                   deviceId |-> RunDeviceId, packageName |-> packageName,
                                   permissions |-> <<>>, items |-> <<>>, choice |-> 0,
                                   toggles |-> 0, act |-> "none"])]
          IN Commit(IF Truthy(packageName) THEN QueryPermissions(st, h) ELSE st)
    /\ UNCHANGED <<callVars, appVars, view>>

\* the user chooses an item of the quick pick or dismisses it
PermissionQuickPick ==
    /\ \E h \in 1..Len(handlers) :
          /\ handlers[h].pc = "awaitPick"
          /\ \E choice \in 0..Len(handlers[h].items) :
                LET nxt == AfterPermissionPick(Now, h, choice) IN
                /\ Len(nxt.invs) <= MaxLoopInvocations
                /\ Commit(nxt)
    /\ UNCHANGED <<callVars, appVars, view>>

\* a child process of the loop ends and the handler runs on to its next
\* await
LoopToolExit ==
    /\ \E i \in 1..Len(invs) :
          /\ invs[i].state = "running"
          /\ \E o \in (IF invs[i].purpose = "permissions"
                      THEN LoopDumpOutcomes ELSE RunToolOutcomes) :
                LET r   == IF invs[i].purpose = "permissions"
                           THEN GetAppPermissionsFinish(o) ELSE ExecuteFinish(o)
                    st  == [Now EXCEPT !.log = @ \o TagAll(r.log, i),
                                       !.invs[i].state =
                                           IF ExecRejects(o) THEN "failed" ELSE "exited"]
                    nxt == IF invs[i].purpose = "permissions"
                           THEN AfterPermissions(st, invs[i].owner, r)
                           ELSE AfterSetPermission(st, invs[i].owner, r)
                IN /\ Len(nxt.invs) <= MaxLoopInvocations
                   /\ Commit(nxt)
    /\ UNCHANGED <<callVars, appVars, view>>

NextLoop ==
    \/ PermissionCommand
    \/ PermissionQuickPick
    \/ LoopToolExit

SpecLoop == InitLoop /\ [][NextLoop]_vars

====
